---- MODULE Spec2Model ----
(***************************************************************************)
(* Model of the two-phase aggregation processor                            *)
(* (query/src/pipelines/new/processors/transforms/transform_aggregator.rs) *)
(* together with the two ports it is connected to, its inner aggregator    *)
(* and the neighbours and driver that call it.                             *)
(*                                                                         *)
(* The port type (processors/port.rs) is not part of the sources at hand;  *)
(* its operations are modelled from the design document (sections 3, 4.1,  *)
(* 5 and 8).                                                               *)
(***************************************************************************)
EXTENDS Integers, Sequences, FiniteSets, TLC

\* ------------------------------------------------------------------ bounds
\* number of push_data calls the upstream producer makes at most
MaxPush == 2
\* number of blocks inner.generate() hands out at most
MaxGen == 2
\* length of the group-by column list and of the aggregate function list at most
MaxCols == 1
\* number of rows in a block at most
MaxRows == 2
\* number of plan nodes above the ReadSource node at most
MaxDepth == 2
\* number of output ports the read2 of a table adds at most
MaxLanes == 2
\* number of generate() calls made on one GithubSource at most
MaxCalls == 4
\* number of column bindings added to one BindContext at most
MaxBindings == 2

\* ------------------------------------------------------- values of the code
\* Option<T>
None == [kind |-> "None"]
Some(b) == [kind |-> "Some", block |-> b]

\* Result<T>
Ok(v) == [kind |-> "Ok", v |-> v]
Err(e) == [kind |-> "Err", v |-> e]
\* a panic of the calling thread (Option::unwrap on None)
Panic == [kind |-> "Panic", v |-> "unwrap"]

\* contents of a port slot: Option<Result<DataBlock>>
Data(b) == [kind |-> "Data", block |-> b]
Error(e) == [kind |-> "Error", code |-> e]

\* one call made on a port or on the inner aggregator, as recorded in the
\* call trace of an event() or process() invocation
Call(f, target) == [f |-> f, on |-> target]

\* TRUE iff the call trace holds a call of f on target
Calls(trace, f, target) == \E i \in 1..Len(trace) : trace[i] = Call(f, target)

\* TRUE iff the trace holds a call of f on target, and a call of g on target before it
CalledAfter(trace, f, g, target) ==
    \E i \in 1..Len(trace) : /\ trace[i] = Call(f, target)
                             /\ \E j \in 1..(i - 1) : trace[j] = Call(g, target)

\* ------------------------------------------------------------------- port
\* A port: one slot, the consumer's request flag, and the finished flag.
NewPort == [slot |-> None, need_data |-> FALSE, finished |-> FALSE]

has_data(p) == p.slot # None

can_push(p) == p.need_data /\ p.slot = None

\* is_finished() of the consumer's end reading the flag alone
InputPort_is_finished_RawFlag(p) == p.finished

\* the consumer's view: a port finished by its producer is reported finished
\* only after the pending data was drained
InputPort_is_finished(p) == p.finished /\ p.slot = None

\* the producer's view
OutputPort_is_finished(p) == p.finished

set_need_data(p) == [p EXCEPT !.need_data = TRUE]

\* takes the slot's contents; the request is served
pull_data(p) == [p EXCEPT !.slot = None, !.need_data = FALSE]

\* fails (port unchanged) if the port is full or finished
push_data(p, d) == IF p.slot # None \/ p.finished THEN p ELSE [p EXCEPT !.slot = d]

finish(p) == [p EXCEPT !.finished = TRUE]

\* -------------------------------------------------------- inner aggregator
\* The inner aggregator is an opaque value: what it has consumed and how
\* many blocks it has handed out.  Data blocks are told apart by a number:
\* the k-th block the aggregator hands out is block k.
NewInner == [consumed |-> <<>>, generated |-> 0]

\* inner.consume(data) with outcome o chosen by the aggregator
Aggregator_consume(inner, data, o) ==
    IF o = Ok("unit")
    THEN [inner |-> [inner EXCEPT !.consumed = Append(@, data)], ret |-> o]
    ELSE [inner |-> inner, ret |-> o]

\* inner.generate() with outcome o chosen by the aggregator
Aggregator_generate(inner, o) ==
    IF o.kind = "Ok" /\ o.v # None
    THEN [inner |-> [inner EXCEPT !.generated = @ + 1], ret |-> o]
    ELSE [inner |-> inner, ret |-> o]

\* the errors an inner aggregator may return
InnerErrors == {"Overflow", "BadArguments"}

\* the outcomes inner.consume may have
ConsumeOutcomes == {Ok("unit")} \cup {Err(e) : e \in InnerErrors}

\* the outcomes inner.generate may have
GenerateOutcomes(inner) ==
    {Ok(None)} \cup {Err(e) : e \in InnerErrors}
      \cup (IF inner.generated < MaxGen THEN {Ok(Some(inner.generated + 1))} ELSE {})

\* ---------------------------------------------------------------- transform
create(input_port, output_port, inner) ==
    [tag |-> "ConsumeData", inner |-> inner, input_port |-> input_port,
     output_port |-> output_port, input_data_block |-> None]

Finished == [tag |-> "Finished"]

\* to_generate building the Generate state around a fresh aggregator
to_generate_FreshInner(self) ==
    IF self.tag = "ConsumeData"
    THEN Ok([tag |-> "Generate", inner |-> NewInner, is_finished |-> FALSE,
             input_port |-> self.input_port, output_port |-> self.output_port,
             output_data_block |-> None])
    ELSE Err("LogicalError")

\* to_generate with a match arm that rebuilds a Generate state
to_generate_FromGenerate(self) ==
    IF self.tag \in {"ConsumeData", "Generate"}
    THEN Ok([tag |-> "Generate", inner |-> self.inner, is_finished |-> FALSE,
             input_port |-> self.input_port, output_port |-> self.output_port,
             output_data_block |-> None])
    ELSE Err("LogicalError")

to_generate(self) ==
    IF self.tag = "ConsumeData"
    THEN Ok([tag |-> "Generate", inner |-> self.inner, is_finished |-> FALSE,
             input_port |-> self.input_port, output_port |-> self.output_port,
             output_data_block |-> None])
    ELSE Err("LogicalError")

\* Result of a call on the transform: the transform after the call, the ports
\* after the call, the value returned, and the calls made on the way.
Outcome(self, ports, ret, calls) ==
    [self |-> self, ports |-> ports, ret |-> ret, calls |-> calls]

\* consume_event asking the port whether it is finished before looking at the
\* pending input block
consume_event_FinishedFirst(self, ports) ==
    IF self.tag = "ConsumeData" THEN
      LET ip == self.input_port IN
      IF InputPort_is_finished(ports[ip]) THEN
        LET r == to_generate(self) IN
        IF r.kind = "Ok"
        THEN Outcome(r.v, ports, Ok("Sync"), <<Call("is_finished", ip)>>)
        ELSE Outcome(Finished, ports, r, <<Call("is_finished", ip)>>)
      ELSE IF self.input_data_block # None THEN
        Outcome(self, ports, Ok("Sync"), <<Call("is_finished", ip)>>)
      ELSE IF has_data(ports[ip]) THEN
        LET d == ports[ip].slot
            after == [ports EXCEPT ![ip] = pull_data(@)]
            calls == <<Call("is_finished", ip), Call("has_data", ip), Call("pull_data", ip)>>
        IN CASE d.kind = "Data" ->
                  Outcome([self EXCEPT !.input_data_block = Some(d.block)], after, Ok("Sync"), calls)
             [] d.kind = "Error" -> Outcome(self, after, Err(d.code), calls)
             [] OTHER -> Outcome(self, after, Panic, calls)
      ELSE
        Outcome(self, [ports EXCEPT ![ip] = set_need_data(@)], Ok("NeedData"),
                <<Call("is_finished", ip), Call("has_data", ip), Call("set_need_data", ip)>>)
    ELSE Outcome(self, ports, Err("LogicalError"), <<>>)

consume_event(self, ports) ==
    IF self.tag = "ConsumeData" THEN
      LET ip == self.input_port IN
      IF self.input_data_block # None THEN
        Outcome(self, ports, Ok("Sync"), <<>>)
      ELSE IF InputPort_is_finished(ports[ip]) THEN
        LET r == to_generate(self) IN
        IF r.kind = "Ok"
        THEN Outcome(r.v, ports, Ok("Sync"), <<Call("is_finished", ip)>>)
        ELSE Outcome(Finished, ports, r, <<Call("is_finished", ip)>>)
      ELSE IF has_data(ports[ip]) THEN
        LET d == ports[ip].slot
            after == [ports EXCEPT ![ip] = pull_data(@)]
            calls == <<Call("is_finished", ip), Call("has_data", ip), Call("pull_data", ip)>>
        IN CASE d.kind = "Data" ->
                  Outcome([self EXCEPT !.input_data_block = Some(d.block)], after, Ok("Sync"), calls)
             [] d.kind = "Error" -> Outcome(self, after, Err(d.code), calls)
             [] OTHER -> Outcome(self, after, Panic, calls)
      ELSE
        Outcome(self, [ports EXCEPT ![ip] = set_need_data(@)], Ok("NeedData"),
                <<Call("is_finished", ip), Call("has_data", ip), Call("set_need_data", ip)>>)
    ELSE Outcome(self, ports, Err("LogicalError"), <<>>)

\* generate_event testing the exhausted flag before it asks can_push()
generate_event_FinishFirst(self, ports) ==
    IF self.tag = "Generate" THEN
      LET out == self.output_port IN
      IF OutputPort_is_finished(ports[out]) THEN
        Outcome(Finished, ports, Ok("Finished"), <<Call("is_finished", out)>>)
      ELSE IF self.is_finished /\ self.output_data_block = None THEN
        Outcome(Finished, [ports EXCEPT ![out] = finish(@)], Ok("Finished"),
                <<Call("is_finished", out), Call("finish", out)>>)
      ELSE IF ~can_push(ports[out]) THEN
        Outcome(self, ports, Ok("NeedConsume"), <<Call("is_finished", out), Call("can_push", out)>>)
      ELSE IF self.output_data_block # None THEN
        Outcome([self EXCEPT !.output_data_block = None],
                [ports EXCEPT ![out] = push_data(@, Data(self.output_data_block.block))],
                Ok("NeedConsume"),
                <<Call("is_finished", out), Call("can_push", out), Call("push_data", out)>>)
      ELSE
        Outcome(self, ports, Ok("Sync"), <<Call("is_finished", out), Call("can_push", out)>>)
    ELSE Outcome(self, ports, Err("LogicalError"), <<>>)

\* generate_event asking for more work before it pushes the pending block
generate_event_SyncFirst(self, ports) ==
    IF self.tag = "Generate" THEN
      LET out == self.output_port IN
      IF OutputPort_is_finished(ports[out]) THEN
        Outcome(Finished, ports, Ok("Finished"), <<Call("is_finished", out)>>)
      ELSE IF ~can_push(ports[out]) THEN
        Outcome(self, ports, Ok("NeedConsume"), <<Call("is_finished", out), Call("can_push", out)>>)
      ELSE IF ~self.is_finished THEN
        Outcome(self, ports, Ok("Sync"), <<Call("is_finished", out), Call("can_push", out)>>)
      ELSE IF self.output_data_block # None THEN
        Outcome([self EXCEPT !.output_data_block = None],
                [ports EXCEPT ![out] = push_data(@, Data(self.output_data_block.block))],
                Ok("NeedConsume"),
                <<Call("is_finished", out), Call("can_push", out), Call("push_data", out)>>)
      ELSE
        Outcome(Finished, [ports EXCEPT ![out] = finish(@)], Ok("Finished"),
                <<Call("is_finished", out), Call("can_push", out),
                  Call("is_finished", out), Call("finish", out)>>)
    ELSE Outcome(self, ports, Err("LogicalError"), <<>>)

\* generate_event retiring an exhausted transform without finishing its output port
generate_event_NoFinish(self, ports) ==
    IF self.tag = "Generate" THEN
      LET out == self.output_port IN
      IF OutputPort_is_finished(ports[out]) THEN
        Outcome(Finished, ports, Ok("Finished"), <<Call("is_finished", out)>>)
      ELSE IF ~can_push(ports[out]) THEN
        Outcome(self, ports, Ok("NeedConsume"), <<Call("is_finished", out), Call("can_push", out)>>)
      ELSE IF self.output_data_block # None THEN
        Outcome([self EXCEPT !.output_data_block = None],
                [ports EXCEPT ![out] = push_data(@, Data(self.output_data_block.block))],
                Ok("NeedConsume"),
                <<Call("is_finished", out), Call("can_push", out), Call("push_data", out)>>)
      ELSE IF self.is_finished THEN
        Outcome(Finished, ports, Ok("Finished"),
                <<Call("is_finished", out), Call("can_push", out)>>)
      ELSE
        Outcome(self, ports, Ok("Sync"), <<Call("is_finished", out), Call("can_push", out)>>)
    ELSE Outcome(self, ports, Err("LogicalError"), <<>>)

\* generate_event pushing the pending block before asking can_push()
generate_event_PushFirst(self, ports) ==
    IF self.tag = "Generate" THEN
      LET out == self.output_port IN
      IF OutputPort_is_finished(ports[out]) THEN
        Outcome(Finished, ports, Ok("Finished"), <<Call("is_finished", out)>>)
      ELSE IF self.output_data_block # None THEN
        Outcome([self EXCEPT !.output_data_block = None],
                [ports EXCEPT ![out] = push_data(@, Data(self.output_data_block.block))],
                Ok("NeedConsume"),
                <<Call("is_finished", out), Call("push_data", out)>>)
      ELSE IF ~can_push(ports[out]) THEN
        Outcome(self, ports, Ok("NeedConsume"), <<Call("is_finished", out), Call("can_push", out)>>)
      ELSE IF self.is_finished THEN
        IF ~OutputPort_is_finished(ports[out])
        THEN Outcome(Finished, [ports EXCEPT ![out] = finish(@)], Ok("Finished"),
                     <<Call("is_finished", out), Call("can_push", out),
                       Call("is_finished", out), Call("finish", out)>>)
        ELSE Outcome(Finished, ports, Ok("Finished"),
                     <<Call("is_finished", out), Call("can_push", out), Call("is_finished", out)>>)
      ELSE
        Outcome(self, ports, Ok("Sync"), <<Call("is_finished", out), Call("can_push", out)>>)
    ELSE Outcome(self, ports, Err("LogicalError"), <<>>)

\* generate_event without the arm that retires an exhausted transform
generate_event_NeverRetires(self, ports) ==
    IF self.tag = "Generate" THEN
      LET out == self.output_port IN
      IF OutputPort_is_finished(ports[out]) THEN
        Outcome(Finished, ports, Ok("Finished"), <<Call("is_finished", out)>>)
      ELSE IF ~can_push(ports[out]) THEN
        Outcome(self, ports, Ok("NeedConsume"), <<Call("is_finished", out), Call("can_push", out)>>)
      ELSE IF self.output_data_block # None THEN
        Outcome([self EXCEPT !.output_data_block = None],
                [ports EXCEPT ![out] = push_data(@, Data(self.output_data_block.block))],
                Ok("NeedConsume"),
                <<Call("is_finished", out), Call("can_push", out), Call("push_data", out)>>)
      ELSE
        Outcome(self, ports, Ok("Sync"), <<Call("is_finished", out), Call("can_push", out)>>)
    ELSE Outcome(self, ports, Err("LogicalError"), <<>>)

generate_event(self, ports) ==
    IF self.tag = "Generate" THEN
      LET out == self.output_port IN
      IF OutputPort_is_finished(ports[out]) THEN
        Outcome(Finished, ports, Ok("Finished"), <<Call("is_finished", out)>>)
      ELSE IF ~can_push(ports[out]) THEN
        Outcome(self, ports, Ok("NeedConsume"), <<Call("is_finished", out), Call("can_push", out)>>)
      ELSE IF self.output_data_block # None THEN
        Outcome([self EXCEPT !.output_data_block = None],
                [ports EXCEPT ![out] = push_data(@, Data(self.output_data_block.block))],
                Ok("NeedConsume"),
                <<Call("is_finished", out), Call("can_push", out), Call("push_data", out)>>)
      ELSE IF self.is_finished THEN
        IF ~OutputPort_is_finished(ports[out])
        THEN Outcome(Finished, [ports EXCEPT ![out] = finish(@)], Ok("Finished"),
                     <<Call("is_finished", out), Call("can_push", out),
                       Call("is_finished", out), Call("finish", out)>>)
        ELSE Outcome(Finished, ports, Ok("Finished"),
                     <<Call("is_finished", out), Call("can_push", out), Call("is_finished", out)>>)
      ELSE
        Outcome(self, ports, Ok("Sync"), <<Call("is_finished", out), Call("can_push", out)>>)
    ELSE Outcome(self, ports, Err("LogicalError"), <<>>)

\* event with the Finished arm dispatched to generate_event
event_FinishedToGenerate(self, ports) ==
    CASE self.tag = "Finished" -> generate_event(self, ports)
      [] self.tag = "Generate" -> generate_event(self, ports)
      [] self.tag = "ConsumeData" -> consume_event(self, ports)

event(self, ports) ==
    CASE self.tag = "Finished" -> Outcome(self, ports, Ok("Finished"), <<>>)
      [] self.tag = "Generate" -> generate_event(self, ports)
      [] self.tag = "ConsumeData" -> consume_event(self, ports)

\* ConsumeState::consume; o is the outcome of inner.consume, if it is called
\* ConsumeState::consume taking the pending block without passing it on
ConsumeState_consume_SkipsInner(self, ports, o) ==
    Outcome([self EXCEPT !.input_data_block = None], ports, Ok("unit"), <<>>)

\* ConsumeState::consume reading the pending block without taking it
ConsumeState_consume_KeepsBlock(self, ports, o) ==
    IF self.input_data_block # None THEN
      LET r == Aggregator_consume(self.inner, self.input_data_block.block, o) IN
      Outcome([self EXCEPT !.inner = r.inner], ports, r.ret, <<Call("consume", "inner")>>)
    ELSE Outcome(self, ports, Ok("unit"), <<>>)

\* ConsumeState::consume
ConsumeState_consume(self, ports, o) ==
    IF self.input_data_block # None THEN
      LET r == Aggregator_consume(self.inner, self.input_data_block.block, o) IN
      Outcome([self EXCEPT !.input_data_block = None, !.inner = r.inner], ports, r.ret,
              <<Call("consume", "inner")>>)
    ELSE Outcome(self, ports, Ok("unit"), <<>>)

\* GenerateState::generate; o is the outcome of inner.generate
GenerateState_generate(self, ports, o) ==
    LET r == Aggregator_generate(self.inner, o) IN
    IF r.ret.kind # "Ok" THEN
      Outcome([self EXCEPT !.inner = r.inner], ports, r.ret, <<Call("generate", "inner")>>)
    ELSE
      Outcome([self EXCEPT !.inner = r.inner,
                           !.is_finished = IF r.ret.v = None THEN TRUE ELSE @,
                           !.output_data_block = r.ret.v],
              ports, Ok("unit"), <<Call("generate", "inner")>>)

\* process reporting every failure of the inner aggregator as a logic error
process_LogicalError(self, ports, co, go) ==
    LET o == CASE self.tag = "Finished" -> Outcome(self, ports, Ok("unit"), <<>>)
               [] self.tag = "ConsumeData" -> ConsumeState_consume(self, ports, co)
               [] self.tag = "Generate" -> GenerateState_generate(self, ports, go)
    IN IF o.ret.kind = "Err" THEN [o EXCEPT !.ret = Err("LogicalError")] ELSE o

\* co is the outcome inner.consume would have, go the one inner.generate would have
process(self, ports, co, go) ==
    CASE self.tag = "Finished" -> Outcome(self, ports, Ok("unit"), <<>>)
      [] self.tag = "ConsumeData" -> ConsumeState_consume(self, ports, co)
      [] self.tag = "Generate" -> GenerateState_generate(self, ports, go)

\* ---------------------------------------------------------- BindContext
\* struct ColumnBinding: table_name is an Option<String>; data_type and
\* scalar are carried along untouched by every method below and are left out
ColumnBinding(table_name, column_name, index) ==
    [table_name |-> table_name, column_name |-> column_name, index |-> index]

\* BindContext::new: no column bindings (the parent is never looked at)
BindContext_new == [columns |-> <<>>]

\* SemanticError with its message
SemanticError(message) == Err([code |-> "SemanticError", message |-> message])

\* BindContext::add_column_binding
add_column_binding(self, column_binding) ==
    [self EXCEPT !.columns = Append(@, column_binding)]

\* the first loop of apply_table_alias: bindings of original_name get the
\* alias name as their table name
RenameTable(columns, original_name, alias) ==
    [i \in 1..Len(columns) |->
        IF columns[i].table_name = Some(original_name)
        THEN [columns[i] EXCEPT !.table_name = Some(alias.name)]
        ELSE columns[i]]

\* the second loop of apply_table_alias: the first bindings get the column
\* names of the alias, in order
RenameColumns(columns, alias) ==
    [i \in 1..Len(columns) |->
        IF i <= Len(alias.columns)
        THEN [columns[i] EXCEPT !.column_name = alias.columns[i]]
        ELSE columns[i]]

\* BindContext::apply_table_alias: the context after the call and the
\* value returned
apply_table_alias(self, original_name, alias) ==
    LET renamed == RenameTable(self.columns, original_name, alias) IN
    IF Len(alias.columns) > Len(renamed)
    THEN [self |-> [self EXCEPT !.columns = renamed],
          ret |-> SemanticError("columns available but columns specified")]
    ELSE [self |-> [self EXCEPT !.columns = RenameColumns(renamed, alias)],
          ret |-> Ok("unit")]

\* the test resolve_column makes on one binding
Matches(column_binding, table, column) ==
    IF table = None
    THEN column_binding.column_name = column
    ELSE /\ column_binding.table_name # None
         /\ column_binding.table_name.block = table.block
         /\ column_binding.column_name = column

\* resolve_column that returns the first of several matching bindings
resolve_column_FirstMatch(self, table, column) ==
    LET result == SelectSeq(self.columns, LAMBDA b : Matches(b, table, column)) IN
    IF result = <<>> THEN SemanticError("doesn't exist") ELSE Ok(result[1])

\* BindContext::resolve_column (&self: the context is only read)
resolve_column(self, table, column) ==
    LET result == SelectSeq(self.columns, LAMBDA b : Matches(b, table, column)) IN
    IF result = <<>> THEN SemanticError("doesn't exist")
    ELSE IF Len(result) > 1 THEN SemanticError("is ambiguous")
    ELSE Ok(result[1])

\* ------------------------------------------------------------------ state
VARIABLES
    transform,      \* the AggregatorTransform value
    ports,          \* the two ports it is connected to, by name
    driver,         \* "running", or "aborted" once a call returned an error
    last_event,     \* what the latest event() call returned
    last_process,   \* what the latest process() call returned
    sync_pending,   \* the latest event() returned Sync and process() was not called since
    protocol_ok,    \* process() was so far called only after event() returned Sync
    last_step,      \* the latest step taken
    last_calls,     \* the calls made by the latest event() or process()
    pushed_in,      \* everything the upstream producer pushed, in order
    consumed_log,   \* the blocks passed to inner.consume, in order
    generated_log,  \* the blocks returned by inner.generate, in order
    pushed_out,     \* the blocks the transform pushed on its output port, in order
    n_to_generate,  \* number of ConsumeData -> Generate transitions so far
    cancel_seen,    \* an event() call was made with the output port finished by downstream
    finish_found_data, \* the producer finished the input port while a block was unread
    inner_ret,      \* what the inner aggregator returned to the latest event() or process(), if called
    probe,          \* the latest call of TransformAggregator::try_create_final / try_create_partial
    builder,        \* the QueryPipelineBuilder: the query it was run on and what it built
    source,         \* the GithubSource: its finish flag and what its generate() calls did
    bind_context,   \* the BindContext: its column bindings and what the latest call on it did
    table_options   \* the RepoTableOptions being converted to engine options and back

vars == <<transform, ports, driver, last_event, last_process, sync_pending, protocol_ok,
          last_step, last_calls, pushed_in, consumed_log, generated_log, pushed_out,
          n_to_generate, cancel_seen, finish_found_data, inner_ret, probe, builder, source,
          bind_context, table_options>>

NotCalled == [kind |-> "NotCalled", v |-> "none"]

Init ==
    /\ transform = create("in", "out", NewInner)
    /\ ports = [in |-> NewPort, out |-> NewPort]
    /\ driver = "running"
    /\ last_event = NotCalled
    /\ last_process = NotCalled
    /\ sync_pending = FALSE
    /\ protocol_ok = TRUE
    /\ last_step = "create"
    /\ last_calls = <<>>
    /\ pushed_in = <<>>
    /\ consumed_log = <<>>
    /\ generated_log = <<>>
    /\ pushed_out = <<>>
    /\ n_to_generate = 0
    /\ cancel_seen = FALSE
    /\ finish_found_data = FALSE
    /\ inner_ret = NotCalled
    /\ probe = NotCalled
    /\ builder = NotCalled
    /\ source = NotCalled
    /\ bind_context = [self |-> BindContext_new, last |-> NotCalled]
    /\ table_options = NotCalled

\* a call that asks the transform for its status has returned o
Returned(o) ==
    /\ transform' = o.self
    /\ ports' = o.ports
    /\ last_event' = o.ret
    /\ last_calls' = o.calls
    /\ driver' = IF o.ret.kind = "Ok" THEN "running" ELSE "aborted"
    /\ sync_pending' = (o.ret = Ok("Sync"))
    /\ pushed_out' = IF Calls(o.calls, "push_data", "out")
                     THEN Append(pushed_out, transform.output_data_block.block)
                     ELSE pushed_out
    /\ n_to_generate' = IF transform.tag = "ConsumeData" /\ o.self.tag = "Generate"
                        THEN n_to_generate + 1 ELSE n_to_generate
    /\ cancel_seen' = (cancel_seen \/ ports["out"].finished)
    /\ inner_ret' = NotCalled
    /\ UNCHANGED <<bind_context, table_options, last_process, protocol_ok, pushed_in, consumed_log, generated_log, finish_found_data>>

\* the driver queries the transform's status
Event ==
    /\ driver = "running"
    /\ Returned(event(transform, ports))
    /\ last_step' = "event"
    /\ UNCHANGED <<bind_context, table_options, probe, builder, source>>

\* the outcomes inner.generate may have in the transform's current state
GenerateChoices ==
    IF transform.tag = "Generate" THEN GenerateOutcomes(transform.inner) ELSE {Ok(None)}

\* process() is run; co and go are the outcomes the inner aggregator's
\* consume and generate have if they are called
ProcessWith(co, go) ==
    /\ driver = "running"
    /\ LET o == process(transform, ports, co, go) IN
       /\ transform' = o.self
       /\ ports' = o.ports
       /\ last_process' = o.ret
       /\ last_calls' = o.calls
       /\ driver' = IF o.ret.kind = "Ok" THEN "running" ELSE "aborted"
       /\ consumed_log' = IF Calls(o.calls, "consume", "inner") /\ co.kind = "Ok"
                          THEN Append(consumed_log, transform.input_data_block.block)
                          ELSE consumed_log
       /\ generated_log' = IF Calls(o.calls, "generate", "inner") /\ go.kind = "Ok" /\ go.v # None
                           THEN Append(generated_log, go.v.block)
                           ELSE generated_log
       /\ inner_ret' = IF Calls(o.calls, "consume", "inner") THEN co
                       ELSE IF Calls(o.calls, "generate", "inner") THEN go
                       ELSE NotCalled
    /\ protocol_ok' = (protocol_ok /\ sync_pending)
    /\ UNCHANGED <<bind_context, table_options, probe, builder, source>>
    /\ sync_pending' = FALSE
    /\ last_step' = "process"
    /\ UNCHANGED <<bind_context, table_options, last_event, pushed_in, pushed_out, n_to_generate, cancel_seen, finish_found_data>>

\* the driver runs one unit of synchronous work
Process == \E co \in ConsumeOutcomes : \E go \in GenerateChoices : ProcessWith(co, go)

\* the upstream producer deposits d
UpstreamPushOf(d) ==
    /\ can_push(ports["in"])
    /\ ~ports["in"].finished
    /\ Len(pushed_in) < MaxPush
    /\ ports' = [ports EXCEPT !["in"] = push_data(@, d)]
    /\ pushed_in' = Append(pushed_in, d)
    /\ last_step' = "upstream_push"
    /\ UNCHANGED <<bind_context, table_options, inner_ret, probe, builder, source>>
    /\ UNCHANGED <<bind_context, table_options, transform, driver, last_event, last_process, sync_pending, protocol_ok,
                   last_calls, consumed_log, generated_log, pushed_out, n_to_generate,
                   cancel_seen, finish_found_data>>

\* the upstream producer deposits its next block (the k-th value it pushes
\* is block k) or an error
UpstreamPush ==
    \E d \in {Data(Len(pushed_in) + 1), Error("UpstreamError")} : UpstreamPushOf(d)

\* the upstream producer finishes the input port
UpstreamFinish ==
    /\ ~ports["in"].finished
    /\ ports' = [ports EXCEPT !["in"] = finish(@)]
    /\ finish_found_data' = has_data(ports["in"])
    /\ last_step' = "upstream_finish"
    /\ UNCHANGED <<bind_context, table_options, inner_ret, probe, builder, source>>
    /\ UNCHANGED <<bind_context, table_options, transform, driver, last_event, last_process, sync_pending, protocol_ok,
                   last_calls, pushed_in, consumed_log, generated_log, pushed_out,
                   n_to_generate, cancel_seen>>

\* the downstream consumer asks for data
DownstreamSetNeedData ==
    /\ ~ports["out"].need_data
    /\ ports' = [ports EXCEPT !["out"] = set_need_data(@)]
    /\ last_step' = "downstream_set_need_data"
    /\ UNCHANGED <<bind_context, table_options, inner_ret, probe, builder, source>>
    /\ UNCHANGED <<bind_context, table_options, transform, driver, last_event, last_process, sync_pending, protocol_ok,
                   last_calls, pushed_in, consumed_log, generated_log, pushed_out,
                   n_to_generate, cancel_seen, finish_found_data>>

\* the downstream consumer takes the pending block
DownstreamPull ==
    /\ has_data(ports["out"])
    /\ ports' = [ports EXCEPT !["out"] = pull_data(@)]
    /\ last_step' = "downstream_pull"
    /\ UNCHANGED <<bind_context, table_options, inner_ret, probe, builder, source>>
    /\ UNCHANGED <<bind_context, table_options, transform, driver, last_event, last_process, sync_pending, protocol_ok,
                   last_calls, pushed_in, consumed_log, generated_log, pushed_out,
                   n_to_generate, cancel_seen, finish_found_data>>

\* the downstream consumer finishes the output port
DownstreamFinish ==
    /\ ~ports["out"].finished
    /\ ports' = [ports EXCEPT !["out"] = finish(@)]
    /\ last_step' = "downstream_finish"
    /\ UNCHANGED <<bind_context, table_options, inner_ret, probe, builder, source>>
    /\ UNCHANGED <<bind_context, table_options, transform, driver, last_event, last_process, sync_pending, protocol_ok,
                   last_calls, pushed_in, consumed_log, generated_log, pushed_out,
                   n_to_generate, cancel_seen, finish_found_data>>

Next ==
    \/ Event
    \/ Process
    \/ UpstreamPush
    \/ UpstreamFinish
    \/ DownstreamSetNeedData
    \/ DownstreamPull
    \/ DownstreamFinish

Spec == Init /\ [][Next]_vars

\* ------------------------------------- the methods of the enum, called directly
\* event() is the only caller of consume_event and generate_event, and
\* consume_event the only caller of to_generate.  Code of the same module may
\* call the three directly, in any state of the transform.

\* to_generate(self) takes the transform by value: on Ok the value returned
\* replaces it, on Err the transform is dropped and the run is over
CallToGenerate ==
    /\ driver = "running"
    /\ LET r == to_generate(transform) IN
       /\ transform' = IF r.kind = "Ok" THEN r.v ELSE transform
       /\ driver' = IF r.kind = "Ok" THEN "running" ELSE "aborted"
       /\ n_to_generate' = IF r.kind = "Ok" THEN n_to_generate + 1 ELSE n_to_generate
       /\ last_calls' = <<>>
    /\ last_step' = "to_generate"
    /\ sync_pending' = FALSE
    /\ inner_ret' = NotCalled
    /\ UNCHANGED <<bind_context, table_options, probe, builder, source, ports, last_event, last_process, protocol_ok, pushed_in, consumed_log,
                   generated_log, pushed_out, cancel_seen, finish_found_data>>

CallConsumeEvent ==
    /\ driver = "running"
    /\ Returned(consume_event(transform, ports))
    /\ UNCHANGED <<bind_context, table_options, probe, builder, source>>
    /\ last_step' = "consume_event"

CallGenerateEvent ==
    /\ driver = "running"
    /\ Returned(generate_event(transform, ports))
    /\ UNCHANGED <<bind_context, table_options, probe, builder, source>>
    /\ last_step' = "generate_event"

CallNext ==
    \/ Next
    \/ CallToGenerate
    \/ CallConsumeEvent
    \/ CallGenerateEvent

CallSpec == Init /\ [][CallNext]_vars

\* ------------------------------------------------- TransformAggregator
\* The parameters of the two constructors.
ColumnNames == {"a", "b"}
FunctionNames == {"count", "sum"}
HashMethodKind == {"KeysU8", "KeysU16", "KeysU32", "KeysU64", "Serializer"}

\* the sequences over S of length n at most
SeqsUpTo(S, n) == UNION {[1..k -> S] : k \in 0..n}

AggregatorParams ==
    [group_columns_name : SeqsUpTo(ColumnNames, MaxCols),
     aggregate_functions : SeqsUpTo(FunctionNames, MaxCols)]

\* the ports named in the parameters are the ports passed as arguments, or
\* two other ports
AggregatorTransformParams ==
    [aggregator_params : AggregatorParams,
     method : HashMethodKind,
     transform_input_port : {"in", "in2"},
     transform_output_port : {"out", "out2"}]

\* the outcomes FinalSingleKeyAggregator::try_create and
\* PartialSingleKeyAggregator::try_create may have
TryCreateOutcomes == {Ok("aggregator"), Err("BadArguments")}

\* a panic of the calling thread (unimplemented!())
Unimplemented == [kind |-> "Panic", v |-> "not implemented"]

\* an aggregator built by one of the keyed constructors: the constructor's
\* type, its HAS_AGG parameter, and the arguments (method, params) it was given
KeyedPartialAggregator(variant, has_agg, method, params) ==
    [variant |-> variant, has_functions |-> has_agg, method |-> method, params |-> params]

\* o is the outcome of FinalSingleKeyAggregator::try_create, if it is called
try_create_final(input_port, output_port, transform_params, o) ==
    LET aggregator_params == transform_params.aggregator_params IN
    IF aggregator_params.group_columns_name = <<>> THEN
      IF o.kind = "Ok"
      THEN Ok(create(input_port, output_port,
                     [variant |-> "FinalSingleKeyAggregator", params |-> aggregator_params]))
      ELSE o
    ELSE Unimplemented

\* try_create_partial without the test of the group-by list
try_create_partial_NoFastPath(input_port, output_port, transform_params, o) ==
    LET aggregator_params == transform_params.aggregator_params
        method == transform_params.method
    IN Ok(create(transform_params.transform_input_port, transform_params.transform_output_port,
                 KeyedPartialAggregator(method \o "PartialAggregator",
                                        aggregator_params.aggregate_functions # <<>>,
                                        method, aggregator_params)))

\* try_create_partial with the KeysU16 arm of the `false` branch building
\* the KeysU32 aggregator
try_create_partial_WrongArm(input_port, output_port, transform_params, o) ==
    LET aggregator_params == transform_params.aggregator_params
        method == transform_params.method
        tip == transform_params.transform_input_port
        top == transform_params.transform_output_port
    IN
    IF aggregator_params.group_columns_name = <<>> THEN
      IF o.kind = "Ok"
      THEN Ok(create(input_port, output_port,
                     [variant |-> "PartialSingleKeyAggregator", params |-> aggregator_params]))
      ELSE o
    ELSE IF aggregator_params.aggregate_functions = <<>> THEN
          CASE method = "KeysU8" ->
               Ok(create(tip, top, KeyedPartialAggregator("KeysU8PartialAggregator", FALSE, method, aggregator_params)))
            [] method = "KeysU16" ->
               Ok(create(tip, top, KeyedPartialAggregator("KeysU16PartialAggregator", FALSE, method, aggregator_params)))
            [] method = "KeysU32" ->
               Ok(create(tip, top, KeyedPartialAggregator("KeysU32PartialAggregator", FALSE, method, aggregator_params)))
            [] method = "KeysU64" ->
               Ok(create(tip, top, KeyedPartialAggregator("KeysU64PartialAggregator", FALSE, method, aggregator_params)))
            [] method = "Serializer" ->
               Ok(create(tip, top, KeyedPartialAggregator("SerializerPartialAggregator", FALSE, method, aggregator_params)))
    ELSE
          CASE method = "KeysU8" ->
               Ok(create(tip, top, KeyedPartialAggregator("KeysU8PartialAggregator", TRUE, method, aggregator_params)))
            [] method = "KeysU16" ->
               Ok(create(tip, top, KeyedPartialAggregator("KeysU32PartialAggregator", TRUE, method, aggregator_params)))
            [] method = "KeysU32" ->
               Ok(create(tip, top, KeyedPartialAggregator("KeysU32PartialAggregator", TRUE, method, aggregator_params)))
            [] method = "KeysU64" ->
               Ok(create(tip, top, KeyedPartialAggregator("KeysU64PartialAggregator", TRUE, method, aggregator_params)))
            [] method = "Serializer" ->
               Ok(create(tip, top, KeyedPartialAggregator("SerializerPartialAggregator", TRUE, method, aggregator_params)))

\* o is the outcome of PartialSingleKeyAggregator::try_create, if it is called
try_create_partial(input_port, output_port, transform_params, o) ==
    LET aggregator_params == transform_params.aggregator_params
        method == transform_params.method
        tip == transform_params.transform_input_port
        top == transform_params.transform_output_port
    IN
    IF aggregator_params.group_columns_name = <<>> THEN
      IF o.kind = "Ok"
      THEN Ok(create(input_port, output_port,
                     [variant |-> "PartialSingleKeyAggregator", params |-> aggregator_params]))
      ELSE o
    ELSE IF aggregator_params.aggregate_functions = <<>> THEN
          CASE method = "KeysU8" ->
               Ok(create(tip, top, KeyedPartialAggregator("KeysU8PartialAggregator", FALSE, method, aggregator_params)))
            [] method = "KeysU16" ->
               Ok(create(tip, top, KeyedPartialAggregator("KeysU16PartialAggregator", FALSE, method, aggregator_params)))
            [] method = "KeysU32" ->
               Ok(create(tip, top, KeyedPartialAggregator("KeysU32PartialAggregator", FALSE, method, aggregator_params)))
            [] method = "KeysU64" ->
               Ok(create(tip, top, KeyedPartialAggregator("KeysU64PartialAggregator", FALSE, method, aggregator_params)))
            [] method = "Serializer" ->
               Ok(create(tip, top, KeyedPartialAggregator("SerializerPartialAggregator", FALSE, method, aggregator_params)))
    ELSE
          CASE method = "KeysU8" ->
               Ok(create(tip, top, KeyedPartialAggregator("KeysU8PartialAggregator", TRUE, method, aggregator_params)))
            [] method = "KeysU16" ->
               Ok(create(tip, top, KeyedPartialAggregator("KeysU16PartialAggregator", TRUE, method, aggregator_params)))
            [] method = "KeysU32" ->
               Ok(create(tip, top, KeyedPartialAggregator("KeysU32PartialAggregator", TRUE, method, aggregator_params)))
            [] method = "KeysU64" ->
               Ok(create(tip, top, KeyedPartialAggregator("KeysU64PartialAggregator", TRUE, method, aggregator_params)))
            [] method = "Serializer" ->
               Ok(create(tip, top, KeyedPartialAggregator("SerializerPartialAggregator", TRUE, method, aggregator_params)))

\* the record of a constructor call: its name, its parameters, its result
Created(f, transform_params, o, ret) ==
    [kind |-> "Called", f |-> f, params |-> transform_params, o |-> o, ret |-> ret]

CallTryCreateFinal ==
    /\ \E p \in AggregatorTransformParams : \E o \in TryCreateOutcomes :
         probe' = Created("try_create_final", p, o, try_create_final("in", "out", p, o))
    /\ UNCHANGED <<bind_context, table_options, transform, ports, driver, last_event, last_process, sync_pending, protocol_ok,
                   last_step, last_calls, pushed_in, consumed_log, generated_log, pushed_out,
                   n_to_generate, cancel_seen, finish_found_data, inner_ret, builder, source>>

CallTryCreatePartial ==
    /\ \E p \in AggregatorTransformParams : \E o \in TryCreateOutcomes :
         probe' = Created("try_create_partial", p, o, try_create_partial("in", "out", p, o))
    /\ UNCHANGED <<bind_context, table_options, transform, ports, driver, last_event, last_process, sync_pending, protocol_ok,
                   last_step, last_calls, pushed_in, consumed_log, generated_log, pushed_out,
                   n_to_generate, cancel_seen, finish_found_data, inner_ret, builder, source>>

FactoryNext ==
    \/ CallTryCreateFinal
    \/ CallTryCreatePartial

FactorySpec == Init /\ [][FactoryNext]_vars

\* --------------------------------------------------------- GithubSource
GithubTableType == {"Comments", "Info", "Issues", "PullRequests"}

\* From<RepoTableOptions> for Box<dyn GithubDataGetter>
GithubDataGetter(options) ==
    CASE options.table_type = "Comments" -> "RepoCommentsTable"
      [] options.table_type = "Info" -> "RepoInfoTable"
      [] options.table_type = "Issues" -> "RepoIssuesTable"
      [] options.table_type = "PullRequests" -> "RepoPRsTable"

\* what get_data_from_github may return: the columns of the table, here the
\* rows they hold, or an error of the request
FetchErrors == {"NetworkError", "BadResponse"}

FetchOutcomes == {Ok(r) : r \in SeqsUpTo({1, 2}, MaxRows)} \cup {Err(e) : e \in FetchErrors}

\* DataBlock::create(schema, arrays)
DataBlock_create(schema, arrays) == [rows |-> arrays]

\* GithubSource::create
GithubSource_create(schema, options) ==
    [schema |-> schema, options |-> options, finish |-> FALSE]

\* generate() that never raises the finish flag
GithubSource_generate_NoFlag(self, fetched) ==
    IF self.finish THEN [self |-> self, ret |-> Ok(None), fetches |-> <<>>]
    ELSE [self |-> self,
          ret |-> IF fetched.kind = "Ok"
                  THEN Ok(Some(DataBlock_create(self.schema, fetched.v))) ELSE fetched,
          fetches |-> <<GithubDataGetter(self.options)>>]

\* generate() that raises the finish flag only once the request has succeeded
GithubSource_generate_FlagAfterFetch(self, fetched) ==
    IF self.finish THEN [self |-> self, ret |-> Ok(None), fetches |-> <<>>]
    ELSE [self |-> [self EXCEPT !.finish = (fetched.kind = "Ok")],
          ret |-> IF fetched.kind = "Ok"
                  THEN Ok(Some(DataBlock_create(self.schema, fetched.v))) ELSE fetched,
          fetches |-> <<GithubDataGetter(self.options)>>]

\* GithubSource::generate; fetched is what get_data_from_github returns if
\* it is called.  The result: the source after the call, the value returned,
\* and the getters that were asked for data.
GithubSource_generate(self, fetched) ==
    IF self.finish THEN [self |-> self, ret |-> Ok(None), fetches |-> <<>>]
    ELSE [self |-> [self EXCEPT !.finish = TRUE],
          ret |-> IF fetched.kind = "Ok"
                  THEN Ok(Some(DataBlock_create(self.schema, fetched.v))) ELSE fetched,
          fetches |-> <<GithubDataGetter(self.options)>>]

\* a GithubSource is created for a table of some type
GithubSourceCreate ==
    /\ source = NotCalled
    /\ \E t \in GithubTableType :
         source' = [kind |-> "GithubSource",
                    self |-> GithubSource_create("schema", [table_type |-> t]),
                    returned |-> <<>>, fetched |-> <<>>, fetches |-> <<>>]
    /\ UNCHANGED <<bind_context, table_options, transform, ports, driver, last_event, last_process, sync_pending, protocol_ok,
                   last_step, last_calls, pushed_in, consumed_log, generated_log, pushed_out,
                   n_to_generate, cancel_seen, finish_found_data, inner_ret, probe, builder>>

\* generate() is called; what the call returned, what the request returned
\* (NotCalled if none was made) and the getters asked are recorded
GithubGenerate ==
    /\ source # NotCalled
    /\ Len(source.returned) < MaxCalls
    /\ \E fetched \in FetchOutcomes :
         LET o == GithubSource_generate(source.self, fetched) IN
         source' = [source EXCEPT !.self = o.self,
                                  !.returned = Append(@, o.ret),
                                  !.fetched = Append(@, IF o.fetches = <<>> THEN NotCalled
                                                        ELSE fetched),
                                  !.fetches = @ \o o.fetches]
    /\ UNCHANGED <<bind_context, table_options, transform, ports, driver, last_event, last_process, sync_pending, protocol_ok,
                   last_step, last_calls, pushed_in, consumed_log, generated_log, pushed_out,
                   n_to_generate, cancel_seen, finish_found_data, inner_ret, probe, builder>>

SourceNext ==
    \/ GithubSourceCreate
    \/ GithubGenerate

SourceSpec == Init /\ [][SourceNext]_vars

\* ------------------------------------------------------ RepoTableOptions
\* the keys of the engine options
OWNER == "owner"

REPO == "repo"

TOKEN == "token"

TABLE_TYPE == "table_type"

\* Display that writes the name of the variant as it is declared
GithubTableType_to_string_VariantName(table_type) == table_type

\* Display of GithubTableType, derived with serialize_all = "snake_case"
GithubTableType_to_string(table_type) ==
    CASE table_type = "Comments" -> "comments"
      [] table_type = "Info" -> "info"
      [] table_type = "Issues" -> "issues"
      [] table_type = "PullRequests" -> "pull_requests"

\* FromStr of GithubTableType, derived with serialize_all = "snake_case":
\* the snake-case names and no other string
GithubTableType_parse(str) ==
    CASE str = "comments" -> Ok("Comments")
      [] str = "info" -> Ok("Info")
      [] str = "issues" -> Ok("Issues")
      [] str = "pull_requests" -> Ok("PullRequests")
      [] OTHER -> Err("VariantNotFound")

\* BTreeMap::new, BTreeMap::insert, BTreeMap::get
BTreeMap_new == [k \in {} |-> ""]

BTreeMap_insert(map, key, value) ==
    [k \in DOMAIN map \cup {key} |-> IF k = key THEN value ELSE map[k]]

BTreeMap_get(map, key) == IF key \in DOMAIN map THEN Some(map[key]) ELSE None

\* impl From<RepoTableOptions> for BTreeMap<String, String>
RepoTableOptions_into_map(options) ==
    LET m1 == BTreeMap_insert(BTreeMap_new, OWNER, options.owner)
        m2 == BTreeMap_insert(m1, REPO, options.repo)
        m3 == BTreeMap_insert(m2, TOKEN, options.token)
    IN BTreeMap_insert(m3, TABLE_TYPE, GithubTableType_to_string(options.table_type))

\* ErrorCode::UnexpectedError with its message
UnexpectedError(message) == Err([code |-> "UnexpectedError", message |-> message])

\* impl TryFrom<&BTreeMap<String, String>> for RepoTableOptions
RepoTableOptions_try_from(options) ==
    LET owner == BTreeMap_get(options, OWNER)
        repo == BTreeMap_get(options, REPO)
        token == BTreeMap_get(options, TOKEN)
        table_type == BTreeMap_get(options, TABLE_TYPE)
    IN IF owner = None THEN UnexpectedError("missing owner key")
       ELSE IF repo = None THEN UnexpectedError("missing repo key")
       ELSE IF token = None THEN UnexpectedError("missing token key")
       ELSE IF table_type = None THEN UnexpectedError("missing table_type key")
       ELSE IF GithubTableType_parse(table_type.block).kind = "Err"
            THEN UnexpectedError("Unsupported Github table type")
       ELSE Ok([repo |-> repo.block, owner |-> owner.block, token |-> token.block,
                table_type |-> GithubTableType_parse(table_type.block).v])

\* owners, repositories and tokens: the empty string, a name, and a string
\* that is also a key of the engine options
OptionStrings == {"", "databend", "owner"}

RepoTableOptions ==
    [repo : OptionStrings, owner : OptionStrings, token : OptionStrings,
     table_type : GithubTableType]

\* the engine options a table may be created with: any of the keys may be
\* missing, and the table type may be any string
EngineOptions ==
    UNION {[keys -> OptionStrings \cup {"comments", "pull_requests", "PullRequests"}] :
             keys \in SUBSET {OWNER, REPO, TOKEN, TABLE_TYPE}}

\* the frame of a conversion of table options
OptionsFrame ==
    UNCHANGED <<transform, ports, driver, last_event, last_process, sync_pending, protocol_ok,
                last_step, last_calls, pushed_in, consumed_log, generated_log, pushed_out,
                n_to_generate, cancel_seen, finish_found_data, inner_ret, probe, builder,
                source, bind_context>>

\* the options of a repository table are converted to engine options
\* (create_table of the repository tables)
IntoEngineOptions ==
    /\ table_options = NotCalled
    /\ \E options \in RepoTableOptions :
         table_options' = [kind |-> "Converted", options |-> options,
                           map |-> RepoTableOptions_into_map(options), parsed |-> NotCalled]
    /\ OptionsFrame

\* a table comes with engine options written by someone else
GivenEngineOptions ==
    /\ table_options = NotCalled
    /\ \E map \in EngineOptions :
         table_options' = [kind |-> "Given", options |-> NotCalled,
                           map |-> map, parsed |-> NotCalled]
    /\ OptionsFrame

\* GithubTable::try_create parses the engine options
TryFromEngineOptions ==
    /\ table_options # NotCalled
    /\ table_options.parsed = NotCalled
    /\ table_options' = [table_options EXCEPT !.parsed = RepoTableOptions_try_from(table_options.map)]
    /\ OptionsFrame

OptionsNext ==
    \/ IntoEngineOptions
    \/ GivenEngineOptions
    \/ TryFromEngineOptions

OptionsSpec == Init /\ [][OptionsNext]_vars

\* ------------------------------------------------- BindContext in use
\* names of the tables and columns of a query, of the alias given to a
\* table and of the columns the alias lists
BindTables == {"t", "u"}

BindColumns == {"x", "y"}

AliasNames == {"a"}

AliasColumns == {"x", "z"}

\* TableAlias of the parsed query: `AS name(columns)`; it may list one
\* column more than any context here has
TableAlias == [name : AliasNames, columns : SeqsUpTo(AliasColumns, MaxBindings + 1)]

\* the frame of a call on the BindContext
BindFrame ==
    UNCHANGED <<transform, ports, driver, last_event, last_process, sync_pending, protocol_ok,
                last_step, last_calls, pushed_in, consumed_log, generated_log, pushed_out,
                n_to_generate, cancel_seen, finish_found_data, inner_ret, probe, builder,
                source, table_options>>

\* the binder adds the binding of a column of some table, or of a column
\* without table name (an expression of the select list); the index is the
\* next free one
AddColumnBinding ==
    /\ Len(bind_context.self.columns) < MaxBindings
    /\ \E table_name \in {None} \cup {Some(t) : t \in BindTables}, column_name \in BindColumns :
         LET b == ColumnBinding(table_name, column_name, Len(bind_context.self.columns) + 1) IN
         bind_context' = [self |-> add_column_binding(bind_context.self, b),
                          last |-> [op |-> "add_column_binding", before |-> bind_context.self,
                                    args |-> <<b>>, ret |-> Ok("unit")]]
    /\ BindFrame

\* the binder applies a table alias
ApplyTableAlias ==
    /\ \E original_name \in BindTables, alias \in TableAlias :
         LET o == apply_table_alias(bind_context.self, original_name, alias) IN
         bind_context' = [self |-> o.self,
                          last |-> [op |-> "apply_table_alias", before |-> bind_context.self,
                                    args |-> <<original_name, alias>>, ret |-> o.ret]]
    /\ BindFrame

\* the binder looks a column reference up, with or without table name
ResolveColumn ==
    /\ \E table \in {None} \cup {Some(t) : t \in BindTables \cup AliasNames},
          column \in BindColumns \cup AliasColumns :
         bind_context' = [self |-> bind_context.self,
                          last |-> [op |-> "resolve_column", before |-> bind_context.self,
                                    args |-> <<table, column>>,
                                    ret |-> resolve_column(bind_context.self, table, column)]]
    /\ BindFrame

BindNext ==
    \/ AddColumnBinding
    \/ ApplyTableAlias
    \/ ResolveColumn

BindSpec == Init /\ [][BindNext]_vars

\* ------------------------------------------------ QueryPipelineBuilder
\* NewPipeline and NewPipe (pipelines/new/pipeline.rs, pipe.rs), the query
\* context and the tables other than GithubTable are not part of the sources
\* at hand; they are modelled from the design document (sections 3, 4.3, 6).

\* A plan is the list of its nodes' kinds from the root down to the
\* ReadSource node; every node above the source has one input.
TransformKinds == {"Filter", "Expression", "AggregatorPartial", "AggregatorFinal"}

Plans == {p \o <<"ReadSource">> : p \in SeqsUpTo(TransformKinds, MaxDepth)}

\* the table a ReadSource node reads: the GitHub table, whose read2 adds one
\* output port, or a table whose read2 adds some number of them
Tables == {[engine |-> "GITHUB", lanes |-> 1]}
            \cup {[engine |-> "OTHER", lanes |-> n] : n \in 1..MaxLanes}

\* the calls of a visit that return a Result
FallibleSteps == {"try_set_partitions", "build_table_from_source_plan", "GithubSource::create",
                  "resize", "AggregatorParams::try_create", "try_create"}

NoFault == [node |-> 0, step |-> "none"]

\* at most one call fails in a run: the call `step` made by the visit of `node`
Faults == {NoFault} \cup [node : 1..(MaxDepth + 1), step : FallibleSteps]

\* a run of the builder: the plan, whether its aggregation has group-by
\* columns, the table read, and the call that fails
Queries == [plan : Plans, grouped : BOOLEAN, table : Tables, fault : Faults]

Fails(q, i, step) == q.fault = [node |-> i, step |-> step]

\* one pipe: the processor it holds (one per lane), the plan node it was
\* added for, and its numbers of input and output ports
Pipe(processor, node, inputs, outputs) ==
    [processor |-> processor, node |-> node, inputs |-> inputs, outputs |-> outputs]

\* NewPipeline::create, with the record of the calls made on it and the
\* value the running visit returned
NewBuilder == [pipeline |-> <<>>, log |-> <<>>, ret |-> Ok("unit")]

\* the number of output ports of the last pipe
Lanes(pipeline) == IF pipeline = <<>> THEN 0 ELSE pipeline[Len(pipeline)].outputs

\* the call op of the visit of node is recorded, with the lanes it found
Logged(b, op, node, ok) ==
    [b EXCEPT !.log = Append(@, [op |-> op, node |-> node,
                                 lanes |-> Lanes(b.pipeline), ok |-> ok])]

\* the visit returns ret
Returns(b, node, ret) ==
    [Logged(b, "return", node, ret.kind = "Ok") EXCEPT !.ret = ret]

NewPipeline_add_pipe(b, pipe) ==
    [Logged(b, "add_pipe", pipe.node, TRUE) EXCEPT !.pipeline = Append(@, pipe)]

\* resize(k): a pipe that takes the lanes of the last pipe and presents k
\* lanes is put behind it, unless the pipeline has k lanes already
NewPipeline_resize(b, k, node, fail) ==
    IF fail \/ b.pipeline = <<>>
    THEN [Logged(b, "resize", node, FALSE) EXCEPT !.ret = Err("LogicalError")]
    ELSE IF Lanes(b.pipeline) = k
    THEN Logged(b, "resize", node, TRUE)
    ELSE [Logged(b, "resize", node, TRUE)
            EXCEPT !.pipeline = Append(@, Pipe("Resize", node, Lanes(b.pipeline), k))]

\* add_transform(f): one processor per lane is made by f and the pipe that
\* holds them is appended; r is what f returns
NewPipeline_add_transform(b, processor, node, r) ==
    IF r.kind = "Ok" /\ b.pipeline # <<>>
    THEN [Logged(b, "add_transform", node, TRUE)
            EXCEPT !.pipeline = Append(@, Pipe(processor, node, Lanes(b.pipeline),
                                               Lanes(b.pipeline)))]
    ELSE [Logged(b, "add_transform", node, FALSE)
            EXCEPT !.ret = IF r.kind = "Ok" THEN Err("LogicalError") ELSE r]

\* the parameters AggregatorTransformParams::try_create makes of the plan
TransformParamsOf(q) ==
    [aggregator_params |-> [group_columns_name |-> IF q.grouped THEN <<"a">> ELSE <<>>,
                            aggregate_functions |-> <<"count">>],
     method |-> "KeysU8",
     transform_input_port |-> "in",
     transform_output_port |-> "out"]

\* GithubTable::read2
GithubTable_read2(b, node, fail) ==
    IF fail THEN [b EXCEPT !.ret = Err("BadArguments")]
    ELSE NewPipeline_add_pipe(b, Pipe("GithubSource", node, 0, 1))

\* read2 of another table
Table_read2(b, table, node, fail) ==
    IF table.engine = "GITHUB" THEN GithubTable_read2(b, node, fail)
    ELSE NewPipeline_add_pipe(b, Pipe("TableSource", node, 0, table.lanes))

visit_read_data_source(b, q, i) ==
    IF Fails(q, i, "try_set_partitions") \/ Fails(q, i, "build_table_from_source_plan")
    THEN [b EXCEPT !.ret = Err("BadArguments")]
    ELSE Table_read2(b, q.table, i, Fails(q, i, "GithubSource::create"))

RECURSIVE visit_plan_node(_, _, _)

visit_expression(b, q, i) ==
    LET b1 == visit_plan_node(b, q, i + 1) IN
    IF b1.ret.kind # "Ok" THEN b1
    ELSE NewPipeline_add_transform(b1, "ExpressionTransform", i,
           IF Fails(q, i, "try_create") THEN Err("BadArguments") ELSE Ok("processor"))

\* visit_aggregate_final calling resize(1) after add_transform
visit_aggregate_final_ResizeLast(b, q, i) ==
    LET b1 == visit_plan_node(b, q, i + 1) IN
    IF b1.ret.kind # "Ok" THEN b1 ELSE
    IF Fails(q, i, "AggregatorParams::try_create") THEN [b1 EXCEPT !.ret = Err("BadArguments")]
    ELSE LET b2 == NewPipeline_add_transform(b1, "TransformAggregator::try_create_final", i,
                     IF Fails(q, i, "try_create") THEN Err("BadArguments")
                     ELSE try_create_final("in", "out", TransformParamsOf(q), Ok("aggregator")))
         IN IF b2.ret.kind # "Ok" THEN b2
            ELSE NewPipeline_resize(b2, 1, i, Fails(q, i, "resize"))

visit_aggregate_final(b, q, i) ==
    LET b1 == visit_plan_node(b, q, i + 1) IN
    IF b1.ret.kind # "Ok" THEN b1 ELSE
    LET b2 == NewPipeline_resize(b1, 1, i, Fails(q, i, "resize")) IN
    IF b2.ret.kind # "Ok" THEN b2 ELSE
    IF Fails(q, i, "AggregatorParams::try_create") THEN [b2 EXCEPT !.ret = Err("BadArguments")]
    ELSE NewPipeline_add_transform(b2, "TransformAggregator::try_create_final", i,
           IF Fails(q, i, "try_create") THEN Err("BadArguments")
           ELSE try_create_final("in", "out", TransformParamsOf(q), Ok("aggregator")))

visit_aggregate_partial(b, q, i) ==
    LET b1 == visit_plan_node(b, q, i + 1) IN
    IF b1.ret.kind # "Ok" THEN b1 ELSE
    IF Fails(q, i, "AggregatorParams::try_create") THEN [b1 EXCEPT !.ret = Err("BadArguments")]
    ELSE NewPipeline_add_transform(b1, "TransformAggregator::try_create_partial", i,
           IF Fails(q, i, "try_create") THEN Err("BadArguments")
           ELSE try_create_partial("in", "out", TransformParamsOf(q), Ok("aggregator")))

\* visit_filter adding its transform before it visits its input
visit_filter_AddFirst(b, q, i) ==
    LET b1 == NewPipeline_add_transform(b, "TransformFilter", i,
                IF Fails(q, i, "try_create") THEN Err("BadArguments") ELSE Ok("processor"))
    IN IF b1.ret.kind # "Ok" THEN b1 ELSE visit_plan_node(b1, q, i + 1)

visit_filter(b, q, i) ==
    LET b1 == visit_plan_node(b, q, i + 1) IN
    IF b1.ret.kind # "Ok" THEN b1
    ELSE NewPipeline_add_transform(b1, "TransformFilter", i,
           IF Fails(q, i, "try_create") THEN Err("BadArguments") ELSE Ok("processor"))

\* the visit of node i of the plan; the visit and what it returns are recorded
visit_plan_node(b, q, i) ==
    LET kind == q.plan[i]
        b0 == Logged(b, "visit", i, TRUE)
        r == CASE kind = "Expression" -> visit_expression(b0, q, i)
               [] kind = "AggregatorPartial" -> visit_aggregate_partial(b0, q, i)
               [] kind = "AggregatorFinal" -> visit_aggregate_final(b0, q, i)
               [] kind = "Filter" -> visit_filter(b0, q, i)
               [] kind = "ReadSource" -> visit_read_data_source(b0, q, i)
               [] OTHER -> [b0 EXCEPT !.ret = Err("UnImplement")]
    IN Returns(r, i, r.ret)

\* QueryPipelineBuilder::create(ctx).finalize(plan): a builder is run once
Build ==
    /\ builder = NotCalled
    /\ \E q \in Queries :
         builder' = [kind |-> "Called", query |-> q,
                     result |-> visit_plan_node(NewBuilder, q, 1)]
    /\ UNCHANGED <<bind_context, table_options, transform, ports, driver, last_event, last_process, sync_pending, protocol_ok,
                   last_step, last_calls, pushed_in, consumed_log, generated_log, pushed_out,
                   n_to_generate, cancel_seen, finish_found_data, inner_ret, probe, source>>

BuilderSpec == Init /\ [][Build]_vars

\* ------------------------------------------------ the driver loop, fairly run
\* The driver loop of one processor: query event(), run process() after Sync,
\* let the neighbours run after NeedData / NeedConsume.  No call fails.

\* the driver queries the status unless it owes a process() call
DriverEvent == ~sync_pending /\ Event

\* the driver runs process() after Sync
DriverProcess ==
    /\ sync_pending
    /\ \E go \in {o \in GenerateChoices : o.kind = "Ok"} : ProcessWith(Ok("unit"), go)

\* the upstream producer deposits its next block
ProducerPush == UpstreamPushOf(Data(Len(pushed_in) + 1))

LiveNext ==
    \/ DriverEvent
    \/ DriverProcess
    \/ ProducerPush
    \/ UpstreamFinish
    \/ DownstreamSetNeedData
    \/ DownstreamPull
    \/ DownstreamFinish

\* the driver keeps running the loop, the producer finishes the input port
\* after its last push, the consumer pulls what is pushed and asks for more
LiveSpec ==
    /\ Init
    /\ [][LiveNext]_vars
    /\ WF_vars(DriverEvent)
    /\ WF_vars(DriverProcess)
    /\ WF_vars(UpstreamFinish)
    /\ WF_vars(DownstreamPull)
    /\ WF_vars(DownstreamSetNeedData)

\* ------------------------------------------- global aggregation, one lane
\* The transform around the single-key aggregator (empty group-by list),
\* run by the driver loop.  The aggregator is not part of the sources at
\* hand; it is modelled from the design document (sections 4.4 and 8): one
\* accumulator set, here COUNT and SUM of one column, handed out as one block
\* of one row by the first generate() call.  Blocks carry their rows.
RowValues == {1, 2}

Block(rows) == [rows |-> rows]

\* what a block of the producer may hold
BlockContents == {Block(r) : r \in SeqsUpTo(RowValues, MaxRows)}

EmptyAccumulator == [count |-> 0, sum |-> 0]

\* the accumulators after the rows were added one by one
RECURSIVE Accumulate(_, _)
Accumulate(acc, rows) ==
    IF rows = <<>> THEN acc
    ELSE Accumulate([count |-> acc.count + 1, sum |-> acc.sum + Head(rows)], Tail(rows))

\* the accumulators after consume was called with each block in turn
RECURSIVE AccumulateBlocks(_, _)
AccumulateBlocks(acc, blocks) ==
    IF blocks = <<>> THEN acc
    ELSE AccumulateBlocks(Accumulate(acc, Head(blocks).rows), Tail(blocks))

\* generate() of the single-key aggregator: the accumulators as one row, once
SingleKey_generate(inner) ==
    IF inner.generated = 0
    THEN Ok(Some(Block(<<AccumulateBlocks(EmptyAccumulator, inner.consumed)>>)))
    ELSE Ok(None)

\* the rows of all blocks of a sequence of port values, as one sequence
RECURSIVE Concat(_)
Concat(pushed) ==
    IF pushed = <<>> THEN <<>> ELSE Head(pushed).block.rows \o Concat(Tail(pushed))

\* the upstream producer deposits a block of rows
SingleKeyPush == \E b \in BlockContents : UpstreamPushOf(Data(b))

\* the driver runs process() after Sync
SingleKeyProcess ==
    /\ sync_pending
    /\ ProcessWith(Ok("unit"), SingleKey_generate(transform.inner))

\* downstream keeps the output port open
SingleKeyNext ==
    \/ DriverEvent
    \/ SingleKeyProcess
    \/ SingleKeyPush
    \/ UpstreamFinish
    \/ DownstreamSetNeedData
    \/ DownstreamPull

SingleKeySpec == Init /\ [][SingleKeyNext]_vars

\* ------------------------------------------------------------- properties

\* the data blocks among the values the producer pushed, in order
DataPushed ==
    LET ds == SelectSeq(pushed_in, LAMBDA d : d.kind = "Data")
    IN [i \in 1..Len(ds) |-> ds[i].block]

\* C1: once event() has returned Finished, every later event() call returns
\* Finished and the transform stays in state Finished, whatever the
\* neighbours and process() do in between.
C1_FinishedIsTerminal ==
    [][last_event = Ok("Finished")
         => (last_event' = Ok("Finished") /\ transform'.tag = "Finished")]_vars

\* event() was called on a transform that already was Finished
C1_Witness ==
    /\ transform.tag = "Finished"
    /\ last_step = "event"
    /\ last_calls = <<>>
    /\ last_event = Ok("Finished")

\* C2: ConsumeData -> Generate happens at most once, only in an event() call
\* that finds no pending input block and the input port reporting finished,
\* and ConsumeData is never entered again.
C2_ToGenerateOnce ==
    [][/\ (transform.tag = "ConsumeData" /\ transform'.tag = "Generate")
            => /\ last_step' = "event"
               /\ transform.input_data_block = None
               /\ InputPort_is_finished(ports[transform.input_port])
       /\ (transform.tag # "ConsumeData") => (transform'.tag # "ConsumeData")
       /\ n_to_generate' <= 1]_vars

\* the transition has happened
C2_Witness == transform.tag = "Generate" /\ n_to_generate = 1

\* C3: when the transform has left ConsumeData, every block pushed on the
\* input port has been passed to inner.consume, also the block that was
\* unread when the producer finished the port.
C3_PendingDrainedBeforeGenerate ==
    (transform.tag # "ConsumeData") => (consumed_log = DataPushed)

\* the producer finished the port over an unread block, and the transform
\* has moved on to Generate
C3_Witness ==
    /\ finish_found_data
    /\ transform.tag = "Generate"
    /\ Len(consumed_log) = MaxPush

\* C4: a Finished transform has both its ports finished.
C4_FinishedClosesPorts ==
    (transform.tag = "Finished")
      => (OutputPort_is_finished(ports["out"]) /\ InputPort_is_finished(ports["in"]))

\* the transform retired by finishing its output port itself
C4_Witness ==
    /\ transform.tag = "Finished"
    /\ Calls(last_calls, "finish", "out")
    /\ ~cancel_seen

\* C5: under the fairly run driver loop, with a producer that finishes the
\* input port, a consumer that pulls and asks for more, and an inner
\* aggregator whose generate() ends up returning None, the transform
\* eventually is Finished.
C5_EventuallyFinished == <>(transform.tag = "Finished")

\* a complete run: every block consumed, every generated block pushed, the
\* output port finished by the transform itself
C5_Witness ==
    /\ transform.tag = "Finished"
    /\ Len(consumed_log) = MaxPush
    /\ Len(pushed_out) = MaxGen
    /\ ~cancel_seen

\* C6: from the first event() call made after downstream finished the output
\* port, the transform pushes no block and calls neither inner.consume nor
\* inner.generate, in ConsumeData as well as in Generate.
C6_CancelWindsDown ==
    [][((cancel_seen \/ (last_step' = "event" /\ ports["out"].finished)) /\ protocol_ok')
         => /\ consumed_log' = consumed_log
            /\ generated_log' = generated_log
            /\ pushed_out' = pushed_out]_vars

\* C7: the transform pushes only after can_push() was asked in the same
\* event() call and into a port that is empty, requested and not finished;
\* it pulls only after has_data() was asked in the same event() call and
\* from an occupied slot.
C7_PortDiscipline ==
    [][(last_step' = "event")
         => /\ Calls(last_calls', "push_data", "out")
                 => /\ CalledAfter(last_calls', "push_data", "can_push", "out")
                    /\ can_push(ports["out"])
                    /\ ~ports["out"].finished
                    /\ ports'["out"].slot = Data(pushed_out'[Len(pushed_out')])
            /\ Calls(last_calls', "pull_data", "in")
                 => /\ CalledAfter(last_calls', "pull_data", "has_data", "in")
                    /\ has_data(ports["in"])
            /\ last_event' # Panic]_vars

\* an event() call has just pushed a block, after blocks were pulled
C7_Witness ==
    /\ last_step = "event"
    /\ Calls(last_calls, "push_data", "out")
    /\ Len(consumed_log) > 0

\* what an event() call in ConsumeData does in the first, second and fourth
\* case of its decision: a pending block, a finished input port, nothing to read
ConsumeEventOtherCases ==
    LET ip == transform.input_port IN
    IF transform.input_data_block # None THEN
         /\ last_event' = Ok("Sync")
         /\ ports' = ports
         /\ transform' = transform
    ELSE IF InputPort_is_finished(ports[ip]) THEN
         /\ last_event' = Ok("Sync")
         /\ transform'.tag = "Generate"
         /\ ports' = ports
    ELSE /\ last_event' = Ok("NeedData")
         /\ Calls(last_calls', "set_need_data", ip)
         /\ ports' = [ports EXCEPT ![ip] = set_need_data(@)]
         /\ transform' = transform

\* the third case applies: nothing pending, port not finished, slot occupied
ConsumeEventThirdCase ==
    /\ transform.input_data_block = None
    /\ ~InputPort_is_finished(ports[transform.input_port])
    /\ has_data(ports[transform.input_port])

\* the slot was pulled into the pending input block and Sync returned
PulledIntoPending ==
    LET ip == transform.input_port IN
    /\ last_event' = Ok("Sync")
    /\ Calls(last_calls', "pull_data", ip)
    /\ ports'[ip].slot = None
    /\ transform'.tag = "ConsumeData"
    /\ transform'.input_data_block # None
    /\ Data(transform'.input_data_block.block) = ports[ip].slot
    /\ transform'.inner = transform.inner

\* C8 as stated: event() in ConsumeData decides (1) pending block -> Sync,
\* ports untouched; (2) input port finished -> Generate, Sync; (3) input port
\* has data -> pulled into the pending slot, Sync; (4) set_need_data,
\* NeedData; and NeedData is returned only after set_need_data.
C8_ConsumeEventOrder_AsStated ==
    [][(last_step' = "event" /\ transform.tag = "ConsumeData")
         => /\ IF ConsumeEventThirdCase THEN PulledIntoPending ELSE ConsumeEventOtherCases
            /\ (last_event' = Ok("NeedData"))
                 => Calls(last_calls', "set_need_data", transform.input_port)]_vars

\* C8, amended: as stated, except that in case (3) the slot is pulled into
\* the pending input block and Sync returned when the slot holds a data
\* block; when it holds an error, the slot is pulled all the same, nothing
\* becomes pending and event() returns that error.
C8_ConsumeEventOrder ==
    [][(last_step' = "event" /\ transform.tag = "ConsumeData")
         => /\ IF ConsumeEventThirdCase
               THEN IF ports[transform.input_port].slot.kind = "Data"
                    THEN PulledIntoPending
                    ELSE /\ last_event' = Err(ports[transform.input_port].slot.code)
                         /\ Calls(last_calls', "pull_data", transform.input_port)
                         /\ ports'[transform.input_port].slot = None
                         /\ transform' = transform
               ELSE ConsumeEventOtherCases
            /\ (last_event' = Ok("NeedData"))
                 => Calls(last_calls', "set_need_data", transform.input_port)]_vars

\* an event() call has pulled a block although the producer had already
\* finished the port: the second case did not apply, the third did
C8_Witness ==
    /\ last_step = "event"
    /\ transform.tag = "ConsumeData"
    /\ transform.input_data_block # None
    /\ Calls(last_calls, "pull_data", "in")
    /\ ports["in"].finished

\* C9: event() in Generate decides (1) output port finished -> Finished;
\* (2) no push possible -> NeedConsume; (3) pending output block -> pushed,
\* pending slot cleared, NeedConsume; (4) generator exhausted -> output port
\* finished, Finished; (5) Sync.
C9_GenerateEventOrder ==
    [][(last_step' = "event" /\ transform.tag = "Generate")
         => LET out == transform.output_port IN
            IF OutputPort_is_finished(ports[out]) THEN
                 /\ last_event' = Ok("Finished")
                 /\ transform'.tag = "Finished"
                 /\ ports' = ports
            ELSE IF ~can_push(ports[out]) THEN
                 /\ last_event' = Ok("NeedConsume")
                 /\ transform' = transform
                 /\ ports' = ports
            ELSE IF transform.output_data_block # None THEN
                 /\ last_event' = Ok("NeedConsume")
                 /\ ports' = [ports EXCEPT ![out].slot = Data(transform.output_data_block.block)]
                 /\ transform' = [transform EXCEPT !.output_data_block = None]
            ELSE IF transform.is_finished THEN
                 /\ last_event' = Ok("Finished")
                 /\ transform'.tag = "Finished"
                 /\ ports' = [ports EXCEPT ![out].finished = TRUE]
                 /\ Calls(last_calls', "finish", out)
            ELSE /\ last_event' = Ok("Sync")
                 /\ transform' = transform
                 /\ ports' = ports]_vars

\* an event() call made by a driver that keeps to the protocol has retired a
\* transform that held a generated block not yet pushed, because downstream
\* had finished the output port: the first case went before the third
C9_Witness ==
    /\ last_step = "event"
    /\ last_event = Ok("Finished")
    /\ last_calls = <<Call("is_finished", "out")>>
    /\ protocol_ok
    /\ Len(generated_log) > Len(pushed_out)

\* C10: the step ConsumeData -> Generate keeps the inner aggregator, the two
\* port references and the ports themselves as they were, and the Generate
\* state starts with no pending output block and the exhausted flag false.
C10_ToGenerateFrame ==
    [][(transform.tag = "ConsumeData" /\ transform'.tag = "Generate")
         => /\ transform'.inner = transform.inner
            /\ transform'.input_port = transform.input_port
            /\ transform'.output_port = transform.output_port
            /\ ports' = ports
            /\ transform'.output_data_block = None
            /\ transform'.is_finished = FALSE]_vars

\* the transition has just been made by an aggregator that holds consumed blocks
C10_Witness ==
    /\ last_step = "event"
    /\ transform.tag = "Generate"
    /\ last_calls = <<Call("is_finished", "in")>>
    /\ Len(transform.inner.consumed) = MaxPush

\* C11: two event() calls in a row, with no process() call and no step of a
\* neighbour in between, return the same status, and the second call changes
\* neither the transform nor its ports.
C11_EventIdempotent ==
    [][(last_step = "event" /\ last_step' = "event")
         => /\ last_event' = last_event
            /\ transform' = transform
            /\ ports' = ports]_vars

\* C12: process() in ConsumeData with a pending block calls inner.consume
\* with it once and empties the pending slot; in Generate it calls
\* inner.generate once, stores the Option returned as the pending output and
\* raises the exhausted flag exactly when that Option is None; in Finished it
\* does nothing and returns Ok; it never changes the state's tag or a port.
C12_ProcessDispatch ==
    [][(last_step' = "process")
         => /\ transform'.tag = transform.tag
            /\ ports' = ports
            /\ CASE transform.tag = "Finished" ->
                      /\ transform' = transform
                      /\ last_process' = Ok("unit")
                      /\ last_calls' = <<>>
                 [] transform.tag = "ConsumeData" ->
                      IF transform.input_data_block # None
                      THEN /\ last_calls' = <<Call("consume", "inner")>>
                           /\ transform'.input_data_block = None
                           /\ (inner_ret' = Ok("unit"))
                                => /\ transform'.inner.consumed
                                        = Append(transform.inner.consumed,
                                                 transform.input_data_block.block)
                                   /\ last_process' = Ok("unit")
                      ELSE /\ last_calls' = <<>>
                           /\ transform' = transform
                           /\ last_process' = Ok("unit")
                 [] transform.tag = "Generate" ->
                      /\ last_calls' = <<Call("generate", "inner")>>
                      /\ (inner_ret'.kind = "Ok")
                           => /\ transform'.output_data_block = inner_ret'.v
                              /\ transform'.is_finished
                                   = (transform.is_finished \/ inner_ret'.v = None)
                              /\ last_process' = Ok("unit")]_vars

\* process() has stored the None that follows the last generated block
C12_Witness ==
    /\ last_step = "process"
    /\ protocol_ok
    /\ transform.tag = "Generate"
    /\ transform.is_finished
    /\ inner_ret = Ok(None)
    /\ Len(generated_log) = MaxGen
    /\ Len(consumed_log) = MaxPush

\* an event() call in Generate that finds no push possible returns
\* NeedConsume and changes nothing
BackpressureHolds ==
    /\ last_event' = Ok("NeedConsume")
    /\ transform' = transform
    /\ ports' = ports
    /\ last_calls' = <<Call("is_finished", "out"), Call("can_push", "out")>>
    /\ pushed_out' = pushed_out

\* an event() call in Generate pushes the pending output block
PendingPushed ==
    /\ pushed_out' = Append(pushed_out, transform.output_data_block.block)
    /\ ports'["out"].slot = Data(transform.output_data_block.block)
    /\ transform'.tag = "Generate"
    /\ transform'.output_data_block = None

\* C13 as stated: while can_push() is false on the output port, every event()
\* call in Generate returns NeedConsume and changes nothing; a pending block
\* is pushed by the first event() call that finds can_push() true.
C13_Backpressure_AsStated ==
    [][(last_step' = "event" /\ transform.tag = "Generate")
         => IF ~can_push(ports["out"]) THEN BackpressureHolds
            ELSE (transform.output_data_block # None) => PendingPushed]_vars

\* C13, amended: the same for an output port that downstream has not
\* finished; on a finished output port event() returns Finished instead and
\* the pending block is dropped.
C13_Backpressure ==
    [][(last_step' = "event" /\ transform.tag = "Generate")
         => IF OutputPort_is_finished(ports["out"])
            THEN /\ last_event' = Ok("Finished")
                 /\ transform' = Finished
                 /\ pushed_out' = pushed_out
                 /\ ports' = ports
            ELSE IF ~can_push(ports["out"]) THEN BackpressureHolds
            ELSE (transform.output_data_block # None) => PendingPushed]_vars

\* an event() call has left a pending block and the exhausted flag waiting
\* behind an output port that takes no push
C13_Witness ==
    /\ last_step = "event"
    /\ last_event = Ok("NeedConsume")
    /\ transform.tag = "Generate"
    /\ transform.output_data_block # None
    /\ ~can_push(ports["out"])
    /\ ~ports["out"].finished

\* C15: when inner.consume or inner.generate returns an error, process()
\* returns exactly that error, and in Generate the pending output block and
\* the exhausted flag stay as they were.
C15_InnerErrorReturned ==
    [][(last_step' = "process" /\ inner_ret'.kind = "Err")
         => /\ last_process' = inner_ret'
            /\ (transform.tag = "Generate")
                 => /\ transform'.output_data_block = transform.output_data_block
                    /\ transform'.is_finished = transform.is_finished]_vars

\* inner.generate has failed after it had handed out a block
C15_Witness ==
    /\ last_step = "process"
    /\ transform.tag = "Generate"
    /\ inner_ret.kind = "Err"
    /\ last_process = inner_ret
    /\ Len(generated_log) > 0

\* C16: once inner.consume or inner.generate has returned an error to the
\* transform, the transform's output port carries that error in its slot.
C16_ErrorMarksOutputPort ==
    [][(last_step' = "process" /\ inner_ret'.kind = "Err")
         => ports'["out"].slot = Error(inner_ret'.v)]_vars

\* C17: an event() call that pulls an error from the input port returns that
\* error, feeds nothing to the inner aggregator, pushes nothing downstream,
\* and finishes the output port.
C17_InputErrorShutsDown ==
    [][(/\ last_step' = "event"
        /\ transform.tag = "ConsumeData"
        /\ transform.input_data_block = None
        /\ ~InputPort_is_finished(ports["in"])
        /\ ports["in"].slot.kind = "Error")
         => /\ last_event' = Err(ports["in"].slot.code)
            /\ consumed_log' = consumed_log
            /\ pushed_out' = pushed_out
            /\ ports'["out"].finished]_vars

\* C14: to_generate applied to a Generate or Finished transform returns a
\* logic error and no Generate state; consume_event on a state other than
\* ConsumeData and generate_event on a state other than Generate return a
\* logic error and change nothing; a Generate state appears only as the
\* result of to_generate applied to a ConsumeData state.
C14_MalformedTransition ==
    [][/\ (last_step' = "to_generate" /\ transform.tag # "ConsumeData")
            => /\ to_generate(transform) = Err("LogicalError")
               /\ transform' = transform
               /\ driver' = "aborted"
       /\ (last_step' = "consume_event" /\ transform.tag # "ConsumeData")
            => /\ last_event' = Err("LogicalError")
               /\ transform' = transform
               /\ ports' = ports
       /\ (last_step' = "generate_event" /\ transform.tag # "Generate")
            => /\ last_event' = Err("LogicalError")
               /\ transform' = transform
               /\ ports' = ports
       /\ (transform'.tag = "Generate" /\ transform.tag # "Generate")
            => /\ transform.tag = "ConsumeData"
               /\ to_generate(transform) = Ok(transform')
               /\ last_step' \in {"event", "consume_event", "to_generate"}]_vars

\* to_generate has been applied to a transform that had already generated a
\* block, and has returned an error
C14_Witness ==
    /\ last_step = "to_generate"
    /\ transform.tag = "Generate"
    /\ Len(generated_log) > 0
    /\ driver = "aborted"

\* C18: try_create_final returns a transform for a non-empty group-by list
\* as it does for an empty one: whenever try_create_partial builds the
\* partial-phase transform for some parameters, try_create_final builds the
\* final-phase transform that merges its lanes for the same parameters.
C18_FinalPhaseCreated ==
    (probe.kind = "Called" /\ probe.f = "try_create_final")
      => (probe.ret.kind = "Ok")
           = (try_create_partial("in", "out", probe.params, probe.o).kind = "Ok")

SingleKeyVariants == {"PartialSingleKeyAggregator", "FinalSingleKeyAggregator"}

\* C21: for an empty group-by list try_create_partial builds the transform
\* around PartialSingleKeyAggregator and try_create_final around
\* FinalSingleKeyAggregator, on the ports passed as arguments, for every hash
\* method kind and every aggregate function list (an error of the
\* aggregator's try_create is returned as it is); a transform around another
\* aggregator is returned only for a non-empty group-by list.
C21_SingleKeyFastPath ==
    (probe.kind = "Called") =>
      LET aggregator_params == probe.params.aggregator_params
          single == IF probe.f = "try_create_partial"
                    THEN "PartialSingleKeyAggregator" ELSE "FinalSingleKeyAggregator"
      IN /\ (aggregator_params.group_columns_name = <<>>)
              => probe.ret = IF probe.o.kind = "Ok"
                             THEN Ok(create("in", "out", [variant |-> single,
                                                           params |-> aggregator_params]))
                             ELSE probe.o
         /\ (probe.ret.kind = "Ok" /\ probe.ret.v.inner.variant \notin SingleKeyVariants)
              => aggregator_params.group_columns_name # <<>>

\* try_create_final was called with no group-by column, an aggregate
\* function and the KeysU64 method, and has built the single-key transform
C21_Witness ==
    /\ probe.kind = "Called"
    /\ probe.f = "try_create_final"
    /\ probe.params.aggregator_params.group_columns_name = <<>>
    /\ probe.params.aggregator_params.aggregate_functions # <<>>
    /\ probe.params.method = "KeysU64"
    /\ probe.ret.kind = "Ok"
    /\ probe.ret.v.inner.variant = "FinalSingleKeyAggregator"

\* the aggregator type and HAS_AGG flag try_create_partial builds for p
BuiltVariant(p) ==
    LET r == try_create_partial("in", "out", p, Ok("aggregator"))
    IN <<r.v.inner.variant, r.v.inner.has_functions>>

\* C22: for a non-empty group-by list try_create_partial returns the
\* transform around the aggregator named after the hash method kind, built
\* with that method, with HAS_AGG true exactly when the aggregate function
\* list is non-empty; parameters that differ in the method kind or in the
\* emptiness of the function list get different aggregators.
C22_KeyedDispatch ==
    (/\ probe.kind = "Called"
     /\ probe.f = "try_create_partial"
     /\ probe.params.aggregator_params.group_columns_name # <<>>) =>
      LET p == probe.params
          has_functions == p.aggregator_params.aggregate_functions # <<>>
      IN /\ probe.ret.kind = "Ok"
         /\ probe.ret.v.tag = "ConsumeData"
         /\ probe.ret.v.inner.variant = p.method \o "PartialAggregator"
         /\ probe.ret.v.inner.method = p.method
         /\ probe.ret.v.inner.has_functions = has_functions
         /\ probe.ret.v.inner.params = p.aggregator_params
         /\ \A q \in AggregatorTransformParams :
              (/\ q.aggregator_params.group_columns_name # <<>>
               /\ \/ q.method # p.method
                  \/ (q.aggregator_params.aggregate_functions # <<>>) # has_functions)
                => BuiltVariant(q) # BuiltVariant(p)

\* try_create_partial has built the KeysU16 aggregator with functions
C22_Witness ==
    /\ probe.kind = "Called"
    /\ probe.f = "try_create_partial"
    /\ probe.params.aggregator_params.group_columns_name # <<>>
    /\ probe.params.aggregator_params.aggregate_functions # <<>>
    /\ probe.params.method = "KeysU16"
    /\ probe.ret.kind = "Ok"
    /\ probe.ret.v.inner.variant = "KeysU16PartialAggregator"
    /\ probe.ret.v.inner.has_functions

\* the positions of the record of calls at which the visit of node made call op
At(op, node) ==
    {k \in 1..Len(builder.result.log) :
       builder.result.log[k].op = op /\ builder.result.log[k].node = node}

\* the positions of the pipeline that hold the final aggregator transform of node
FinalPipes(node) ==
    {k \in 1..Len(builder.result.pipeline) :
       /\ builder.result.pipeline[k].node = node
       /\ builder.result.pipeline[k].processor = "TransformAggregator::try_create_final"}

\* C23: the visit of a final-aggregation node visits the input, then calls
\* resize(1), then adds the final aggregator transform; the transform is
\* added to a pipeline of one lane; if the visit of the input or resize(1)
\* fails, add_transform is not called and the pipeline holds no final
\* aggregator transform of the node.
C23_FinalVisitOrder ==
    (builder.kind = "Called") =>
      LET log == builder.result.log
          pipeline == builder.result.pipeline
      IN \A i \in 1..(Len(builder.query.plan) - 1) :
           (builder.query.plan[i] = "AggregatorFinal") =>
             LET inputOk == \E k \in At("return", i + 1) : log[k].ok
                 resizeOk == \E k \in At("resize", i) : log[k].ok
             IN /\ Cardinality(At("resize", i)) <= 1
                /\ Cardinality(At("add_transform", i)) <= 1
                /\ \A r \in At("resize", i) :
                     \E k \in At("return", i + 1) : k < r /\ log[k].ok
                /\ \A a \in At("add_transform", i) :
                     /\ \E r \in At("resize", i) : r < a /\ log[r].ok
                     /\ log[a].lanes = 1
                /\ \A k \in FinalPipes(i) :
                     /\ pipeline[k].inputs = 1
                     /\ \E a \in At("add_transform", i) : log[a].ok
                /\ (~inputOk \/ ~resizeOk)
                     => At("add_transform", i) = {} /\ FinalPipes(i) = {}

\* a final aggregation over a partial aggregation of two lanes was built:
\* the resize pipe takes the two lanes, the final transform sits on one
C23_Witness ==
    /\ builder.kind = "Called"
    /\ builder.result.ret = Ok("unit")
    /\ builder.query.plan = <<"AggregatorFinal", "AggregatorPartial", "ReadSource">>
    /\ builder.query.table.lanes = 2
    /\ Len(builder.result.pipeline) = 4
    /\ builder.result.pipeline[3] = Pipe("Resize", 1, 2, 1)
    /\ FinalPipes(1) = {4}

\* the processor a node of the kind is built as
ProcessorOf(kind, table) ==
    CASE kind = "Filter" -> "TransformFilter"
      [] kind = "Expression" -> "ExpressionTransform"
      [] kind = "AggregatorPartial" -> "TransformAggregator::try_create_partial"
      [] kind = "AggregatorFinal" -> "TransformAggregator::try_create_final"
      [] kind = "ReadSource" -> IF table.engine = "GITHUB" THEN "GithubSource" ELSE "TableSource"

\* every call a visit makes on the pipeline comes after the visit of its
\* input has returned
InputVisitedFirst ==
    LET log == builder.result.log IN
    \A i \in 1..(Len(builder.query.plan) - 1) :
      \A k \in At("add_pipe", i) \cup At("add_transform", i) \cup At("resize", i) :
        \E v \in At("visit", i + 1) : \E r \in At("return", i + 1) :
          v < r /\ r < k /\ \A w \in At("visit", i) : w < v

\* C24 as stated: every call on the pipeline follows the visit of the input,
\* and after a visit of the plan that succeeded the pipeline holds one pipe
\* for each node, the source's first.
C24_BottomUp_AsStated ==
    (builder.kind = "Called") =>
      LET plan == builder.query.plan
          pipeline == builder.result.pipeline
      IN /\ InputVisitedFirst
         /\ (builder.result.ret.kind = "Ok")
              => /\ Len(pipeline) = Len(plan)
                 /\ \A k \in 1..Len(pipeline) : pipeline[k].node = Len(plan) + 1 - k

\* the pipes other than resize pipes, in their order
NodePipes == SelectSeq(builder.result.pipeline, LAMBDA p : p.processor # "Resize")

\* C24, amended: every call on the pipeline follows the visit of the input;
\* the pipes that hold the nodes' processors are appended bottom-up, one for
\* each node whose visit succeeded; a resize pipe is appended besides, by the
\* visit of a final-aggregation node whose input has more than one lane,
\* right before that node's pipe; a visit panics only at a final-aggregation
\* node with group-by columns, which gets no pipe.
C24_BottomUp ==
    (builder.kind = "Called") =>
      LET plan == builder.query.plan
          pipeline == builder.result.pipeline
      IN /\ InputVisitedFirst
         /\ Len(NodePipes) <= Len(plan)
         /\ \A k \in 1..Len(NodePipes) :
              /\ NodePipes[k].node = Len(plan) + 1 - k
              /\ NodePipes[k].processor
                   = ProcessorOf(plan[NodePipes[k].node], builder.query.table)
         /\ (builder.result.ret.kind = "Ok") => Len(NodePipes) = Len(plan)
         /\ (builder.result.ret.kind = "Panic")
              => /\ builder.query.grouped
                 /\ Len(NodePipes) < Len(plan)
                 /\ plan[Len(plan) - Len(NodePipes)] = "AggregatorFinal"
         /\ \A k \in 1..Len(pipeline) :
              (pipeline[k].processor = "Resize")
                => /\ plan[pipeline[k].node] = "AggregatorFinal"
                   /\ pipeline[k].inputs > 1
                   /\ pipeline[k].outputs = 1
                   /\ k > 1 /\ pipeline[k - 1].node = pipeline[k].node + 1
                   /\ (k < Len(pipeline)) => pipeline[k + 1].node = pipeline[k].node
                   /\ (k = Len(pipeline)) => builder.result.ret.kind # "Ok"

\* a plan of MaxDepth nodes over a source of two lanes was built, with a
\* resize pipe before the final aggregator's pipe
C24_Witness ==
    /\ builder.kind = "Called"
    /\ builder.result.ret = Ok("unit")
    /\ Len(builder.query.plan) = MaxDepth + 1
    /\ builder.query.plan[1] = "AggregatorFinal"
    /\ builder.query.table.lanes = 2
    /\ Len(NodePipes) = MaxDepth + 1
    /\ Len(builder.result.pipeline) = MaxDepth + 2

LaterCallsExhausted ==
    /\ Len(source.fetches) <= 1
    /\ \A k \in 2..Len(source.returned) :
         source.returned[k] = Ok(None) /\ source.fetched[k] = NotCalled

\* C26 as stated: the first generate() call of a GithubSource fetches and
\* returns one batch, every later call returns None without fetching.
C26_OneBatchSource_AsStated ==
    (source # NotCalled /\ source.returned # <<>>)
      => /\ source.fetches = <<GithubDataGetter(source.self.options)>>
         /\ source.returned[1].kind = "Ok"
         /\ source.returned[1].v.kind = "Some"
         /\ LaterCallsExhausted

\* C26, amended: the first generate() call fetches once, from the getter of
\* the table's type, and returns the batch made of what was fetched, or the
\* error of the fetch if it failed; every later call returns None without
\* fetching.
C26_OneBatchSource ==
    (source # NotCalled /\ source.returned # <<>>)
      => /\ source.fetches = <<GithubDataGetter(source.self.options)>>
         /\ source.self.finish
         /\ source.returned[1]
              = IF source.fetched[1].kind = "Ok"
                THEN Ok(Some(DataBlock_create("schema", source.fetched[1].v)))
                ELSE source.fetched[1]
         /\ LaterCallsExhausted

\* the source has returned a batch of rows and then None, MaxCalls calls in all
C26_Witness ==
    /\ source # NotCalled
    /\ Len(source.returned) = MaxCalls
    /\ source.returned[1].kind = "Ok"
    /\ source.returned[1].v.kind = "Some"
    /\ source.returned[1].v.block.rows # <<>>
    /\ source.returned[MaxCalls] = Ok(None)

\* C27: inner.consume is called only while the transform is in ConsumeData
\* and has never left it, inner.generate only while it is in Generate, and,
\* when process() is called only after Sync, inner.generate is not called
\* once it has returned None (the exhausted flag is up).
C27_PhaseSeparation ==
    [][(last_step' \in {"event", "process"})
         => /\ Calls(last_calls', "consume", "inner")
                 => /\ transform.tag = "ConsumeData"
                    /\ n_to_generate = 0
                    /\ generated_log = <<>>
            /\ Calls(last_calls', "generate", "inner")
                 => /\ transform.tag = "Generate"
                    /\ last_step' = "process"
            /\ (protocol_ok' /\ Calls(last_calls', "generate", "inner"))
                 => ~transform.is_finished]_vars

\* inner.generate has returned None to a process() call that followed Sync,
\* after blocks were consumed and generated
C27_Witness ==
    /\ protocol_ok
    /\ transform.tag = "Generate"
    /\ transform.is_finished
    /\ last_step = "process"
    /\ inner_ret = Ok(None)
    /\ consumed_log # <<>>
    /\ generated_log # <<>>

\* the pending output block, as a sequence
PendingOutput ==
    IF transform.tag = "Generate" /\ transform.output_data_block # None
    THEN <<transform.output_data_block.block>> ELSE <<>>

\* C28: when process() is called only after Sync, the blocks pushed on the
\* output port are the blocks inner.generate returned, in that order, each
\* once: while the transform is in Generate and the output port is open, all
\* of them but a pending last one; all of them when the transform finishes
\* the port; and process() calls inner.generate only with the pending
\* output slot empty.
C28_OutputOrder ==
    /\ [](protocol_ok =>
            /\ Len(pushed_out) <= Len(generated_log)
            /\ pushed_out = SubSeq(generated_log, 1, Len(pushed_out))
            /\ (transform.tag = "Generate" /\ ~ports["out"].finished)
                 => generated_log = pushed_out \o PendingOutput)
    /\ [][/\ (last_step' = "event" /\ protocol_ok /\ Calls(last_calls', "finish", "out"))
               => pushed_out' = generated_log'
          /\ (last_step' = "process" /\ protocol_ok' /\ transform.tag = "Generate")
               => transform.output_data_block = None]_vars

\* MaxGen blocks were generated and pushed, and the transform has finished
\* the output port itself
C28_Witness ==
    /\ protocol_ok
    /\ transform.tag = "Finished"
    /\ Calls(last_calls, "finish", "out")
    /\ Len(generated_log) = MaxGen
    /\ pushed_out = generated_log

\* the blocks among the values the producer pushed
RECURSIVE BlocksOf(_)
BlocksOf(pushed) ==
    IF pushed = <<>> THEN <<>>
    ELSE (IF Head(pushed).kind = "Data" THEN <<Head(pushed).block>> ELSE <<>>)
           \o BlocksOf(Tail(pushed))

\* the pulled block that waits for process(), as a sequence
PendingInput ==
    IF transform.tag = "ConsumeData" /\ transform.input_data_block # None
    THEN <<transform.input_data_block.block>> ELSE <<>>

\* the block in the slot of the input port, as a sequence
UnreadInput ==
    IF ports["in"].slot # None /\ ports["in"].slot.kind = "Data"
    THEN <<ports["in"].slot.block>> ELSE <<>>

\* C29: when process() is called only after Sync and no call has failed, the
\* blocks passed to inner.consume, followed by the pending input block and
\* the block still in the port, are the blocks the producer pushed, in that
\* order, under every interleaving of the producer with the transform; and
\* event() pulls only with the pending input slot empty.
C29_InputOrder ==
    /\ []((protocol_ok /\ driver = "running")
            => consumed_log \o PendingInput \o UnreadInput = BlocksOf(pushed_in))
    /\ [][(last_step' = "event" /\ Calls(last_calls', "pull_data", "in"))
            => /\ transform.tag = "ConsumeData"
               /\ transform.input_data_block = None]_vars

\* MaxPush blocks were pushed, the port was finished, and all were consumed
\* in order before the transform went on to generate
C29_Witness ==
    /\ protocol_ok
    /\ driver = "running"
    /\ transform.tag = "Generate"
    /\ Len(pushed_in) = MaxPush
    /\ Len(consumed_log) = MaxPush
    /\ consumed_log = BlocksOf(pushed_in)

\* C30: the transform calls finish() on its output port only from Generate,
\* with the port not finished, can_push() true (the slot empty), the pending
\* output slot empty and the exhausted flag up; the call makes the transform
\* Finished, and a Finished transform makes no call: finish() is called at
\* most once.
C30_FinishOnce ==
    [][(last_step' \in {"event", "process"})
         => /\ Calls(last_calls', "finish", "out")
                 => /\ last_step' = "event"
                    /\ transform.tag = "Generate"
                    /\ ~ports["out"].finished
                    /\ can_push(ports["out"])
                    /\ ports["out"].slot = None
                    /\ transform.output_data_block = None
                    /\ transform.is_finished
                    /\ transform' = Finished
                    /\ ports' = [ports EXCEPT !["out"] = finish(@)]
                    /\ Cardinality({k \in 1..Len(last_calls') :
                                      last_calls'[k] = Call("finish", "out")}) = 1
            /\ ~Calls(last_calls', "finish", "in")
            /\ (transform.tag = "Finished") => last_calls' = <<>>]_vars

\* the transform has finished its output port after the consumer had pulled
\* the last block it pushed
C30_Witness ==
    /\ last_step = "event"
    /\ Calls(last_calls, "finish", "out")
    /\ transform.tag = "Finished"
    /\ ports["out"].finished
    /\ ports["out"].slot = None
    /\ pushed_out # <<>>

\* the request of the first generate() call failed
FirstFetchFailed ==
    /\ source # NotCalled
    /\ source.fetched # <<>>
    /\ source.fetched[1] # NotCalled
    /\ source.fetched[1].kind = "Err"

\* C31: a GithubSource asks for its data at most once; if the request of
\* the first generate() call fails, that call returns the error of the
\* request, and every later call returns None without a request: the error
\* is returned by no other call and the source stays exhausted.
C31_NoRetry ==
    /\ source # NotCalled => Len(source.fetches) <= 1
    /\ FirstFetchFailed
         => /\ source.returned[1] = source.fetched[1]
            /\ source.self.finish
            /\ \A k \in 2..Len(source.returned) :
                 /\ source.returned[k] = Ok(None)
                 /\ source.fetched[k] = NotCalled
            /\ \A k \in 1..Len(source.returned) :
                 source.returned[k].kind = "Err" => k = 1

\* the first request failed and generate() was called MaxCalls times in all
C31_Witness ==
    /\ FirstFetchFailed
    /\ Len(source.returned) = MaxCalls
    /\ source.returned[1].kind = "Err"
    /\ source.returned[2] = Ok(None)

\* the latest call on the BindContext was op
BindCalled(op) == bind_context.last # NotCalled /\ bind_context.last.op = op

\* positions of the bindings that a lookup of (table, column) matches
Matching(columns, table, column) ==
    {i \in 1..Len(columns) :
        /\ columns[i].column_name = column
        /\ table # None => columns[i].table_name = table}

\* C32: resolve_column returns a binding exactly when exactly one binding of
\* the scope matches the lookup (same column name, and same table name when
\* the lookup gives one, which a binding without table name never has), and
\* then it is that binding; with no match it returns the "doesn't exist"
\* error, with more than one the "ambiguous" error; the context is the same
\* after the call.
C32_ResolveColumn ==
    BindCalled("resolve_column")
      => LET columns == bind_context.last.before.columns
             m == Matching(columns, bind_context.last.args[1], bind_context.last.args[2])
             ret == bind_context.last.ret
         IN /\ ret.kind = "Ok" <=> Cardinality(m) = 1
            /\ Cardinality(m) = 1 => \E i \in m : ret = Ok(columns[i])
            /\ Cardinality(m) = 0 => ret = SemanticError("doesn't exist")
            /\ Cardinality(m) > 1 => ret = SemanticError("is ambiguous")
            /\ bind_context.self = bind_context.last.before

\* a lookup by column name alone met two bindings of that name, one of
\* them without table name
C32_Witness ==
    /\ BindCalled("resolve_column")
    /\ bind_context.last.args[1] = None
    /\ bind_context.last.ret = SemanticError("is ambiguous")
    /\ \E i \in 1..Len(bind_context.self.columns) : bind_context.self.columns[i].table_name = None

\* C33: apply_table_alias returns the semantic error exactly when the alias
\* lists more column names than the context has bindings, and then every
\* binding of the context is as it was before the call, table name as well
\* as column name; on success exactly the first k column names are the
\* alias's, in order, and exactly the bindings of original_name have the
\* alias name as table name.
C33_ApplyTableAlias ==
    BindCalled("apply_table_alias")
      => LET before == bind_context.last.before.columns
             after == bind_context.self.columns
             original_name == bind_context.last.args[1]
             alias == bind_context.last.args[2]
             k == Len(alias.columns)
         IN /\ bind_context.last.ret.kind = "Err" <=> k > Len(before)
            /\ bind_context.last.ret.kind = "Err" => after = before
            /\ bind_context.last.ret.kind = "Ok"
                 => /\ Len(after) = Len(before)
                    /\ \A i \in 1..Len(before) :
                         /\ after[i].column_name
                              = IF i <= k THEN alias.columns[i] ELSE before[i].column_name
                         /\ after[i].table_name
                              = IF before[i].table_name = Some(original_name)
                                THEN Some(alias.name) ELSE before[i].table_name
                         /\ after[i].index = before[i].index

\* C34: for every RepoTableOptions value, whatever its owner, repo, token
\* and table type, parsing the engine options it was converted to succeeds
\* and gives back the same owner, repo, token and table type.
C34_OptionsRoundTrip ==
    (table_options # NotCalled /\ table_options.kind = "Converted")
      => /\ DOMAIN table_options.map = {OWNER, REPO, TOKEN, TABLE_TYPE}
         /\ table_options.parsed # NotCalled
              => /\ table_options.parsed.kind = "Ok"
                 /\ table_options.parsed.v.owner = table_options.options.owner
                 /\ table_options.parsed.v.repo = table_options.options.repo
                 /\ table_options.parsed.v.token = table_options.options.token
                 /\ table_options.parsed.v.table_type = table_options.options.table_type

\* the options of a pull-requests table, with an empty token and an owner
\* named like a key, went to engine options and back
C34_Witness ==
    /\ table_options # NotCalled
    /\ table_options.kind = "Converted"
    /\ table_options.parsed # NotCalled
    /\ table_options.options.table_type = "PullRequests"
    /\ table_options.options.owner = "owner"
    /\ table_options.options.token = ""
    /\ table_options.map[TABLE_TYPE] = "pull_requests"

====
